---------------------------- MODULE Spec2Model ----------------------------
(***************************************************************************)
(* Verification model of the Auto_ALM scripts (Malya727/Auto_ALM).         *)
(*                                                                         *)
(* The repository is a family of near-duplicate Python scripts that        *)
(* promote a revision tag from a DEV model to a PROD model.  The module    *)
(* holds one group of variables per modelled piece of code and one         *)
(* specification per group:                                                *)
(*                                                                         *)
(*   SpecCap      the capacity check of ask_revision_choice_for_pair       *)
(*                (Auto_ALM.py, Auto_ALM2.py, Alm7.py) and of main (19.py) *)
(*   SpecPromote  promote_revision_classic (53.py, 55.py) against every    *)
(*                combination of remote responses                          *)
(*   SpecPrompt   prompt_for_rt_option (53.py), one menu round per step    *)
(*   Spec         main of 53.py: authentication, enrichment, planning,     *)
(*                global proceed prompt, execution, final results          *)
(*                                                                         *)
(* Text typed by the user is a sequence of one-character strings, so that  *)
(* str.strip() and str.lower() are modelled by what they do.               *)
(***************************************************************************)
EXTENDS Integers, Sequences, FiniteSets, TLC

(***************************************************************************)
(* Bounds of the model.                                                    *)
(***************************************************************************)
MaxBytes == 20
MaxDelta == 3
MaxActions == 3
MaxRevs == 2
MaxListFails == 4
MaxSelTries == 2
NumPairs == 2
NumWorkspaces == 3
MaxPolls == 4

(***************************************************************************)
(* User input: input(...).strip().lower() or default                       *)
(***************************************************************************)
RECURSIVE LStrip(_)
LStrip(s) == IF s # <<>> /\ Head(s) = " " THEN LStrip(Tail(s)) ELSE s

RECURSIVE RStrip(_)
RStrip(s) == IF s # <<>> /\ s[Len(s)] = " "
             THEN RStrip(SubSeq(s, 1, Len(s) - 1))
             ELSE s

Strip(s) == RStrip(LStrip(s))

LowerChar(c) == CASE c = "Y" -> "y"
                  [] c = "N" -> "n"
                  [] c = "C" -> "c"
                  [] c = "A" -> "a"
                  [] c = "L" -> "l"
                  [] c = "M" -> "m"
                  [] c = "S" -> "s"
                  [] c = "P" -> "p"
                  [] c = "R" -> "r"
                  [] c = "E" -> "e"
                  [] c = "I" -> "i"
                  [] c = "T" -> "t"
                  [] OTHER   -> c

Lower(s) == [k \in 1..Len(s) |-> LowerChar(s[k])]

\* Python's `sub in s` on strings
Contains(sub, s) ==
    \E k \in 1..(Len(s) - Len(sub) + 1) : SubSeq(s, k, k + Len(sub) - 1) = sub

\* Python's `x or d` on strings: the empty string is falsy.
OrDefault(s, d) == IF s = <<>> THEN d ELSE s

Yes == <<"y">>
No  == <<"n">>

\* What the user may type at a y/n prompt.
RawAnswers == { <<>>, <<"y">>, <<"Y">>, <<" ", "y", " ">>, <<"n">>,
                <<"y", "e", "s">> }

(***************************************************************************)
(* Variables                                                               *)
(***************************************************************************)
VARIABLES
    cap,        \* capacity check of one pair: inputs, estimate, branch taken
    pr,         \* one call of promote_revision_classic: responses, result
    rt,         \* one call of prompt_for_rt_option: DEV revisions, last round
    \* main of 53.py
    pc,             \* where main is
    idx,            \* the pair the current loop is at
    enriched,       \* list of entries, one per configured pair
    planned,        \* list of planned items
    results,        \* list of (planned item, status)
    rt_name,        \* the revision name prepared for the current pair
    dev_revisions,  \* remote: the revision tags of each pair's DEV model
    confirm_raw,    \* what was typed at the current pair's confirmation
    requests,       \* per pair: the state-changing requests sent so far
    confirms,       \* per pair: "unasked", "y" or "other", as answered
    token,          \* the session token, "none" until authenticate returns
    plan_cont,      \* cont of line 489: the answer at the global proceed prompt
    \* main of the other scripts (11.py, 14.py, 19.py, Alm7.py, ...)
    script,         \* which script runs
    at,             \* where its main is
    pair,           \* the pair its loop is at (idx)
    meta,           \* per pair: whether DEV / PROD workspace was found
    dev_tags,       \* remote: per pair, the revision names of the DEV model
    tag,            \* the revision name selected for the current pair
    tasks,          \* the tasks / plan entries built so far
    summary,        \* the summary rows written so far
    ops,            \* per pair: the requests and prompts made for it
    \* single functions of the other scripts
    scan,       \* find_workspace_for_model: the lookups of one run
    poll,       \* poll_sync: the remote task and the polls made
    \* the threads of 31.py
    worker,     \* per thread (main last): the line it is at, the blocks entered
    lock        \* threading.Lock of 31.py: the thread that holds it, or 0

capVars == <<cap>>
prVars == <<pr>>
rtVars == <<rt>>
mainVars == <<pc, idx, enriched, planned, results, rt_name, dev_revisions,
              confirm_raw, requests, confirms, token, plan_cont>>
runVars == <<script, at, pair, meta, dev_tags, tag, tasks, summary, ops>>
fnVars == <<scan, poll, worker, lock>>
vars == <<cap, pr, rt, pc, idx, enriched, planned, results, rt_name,
          dev_revisions, confirm_raw, requests, confirms, token, plan_cont,
          script, at,
          pair,
          meta, dev_tags, tag, tasks, summary, ops, scan, poll, worker, lock>>

(***************************************************************************)
(* Capacity check (Auto_ALM.py, Auto_ALM2.py, Alm7.py, 19.py)              *)
(*                                                                         *)
(* A percentage is kept as the exact fraction num/den; Python computes     *)
(* after / alloc in binary floating point and compares with the literal    *)
(* 0.95.  For byte counts below 2^40 the float comparison and the exact    *)
(* one agree (the division is correctly rounded and rounding is monotone), *)
(* so the comparison is modelled on the fraction.                          *)
(***************************************************************************)
Fraction(n, d) == [num |-> n, den |-> d]
ZeroPct == Fraction(0, 1)

\* pct_after >= 0.95 (not the code's comparison)
AtLeast95(pct) == pct.num * 100 >= 95 * pct.den
\* pct_after > 0.95
Exceeds95(pct) == pct.num * 100 > 95 * pct.den

\* Python truthiness of an int
Truthy(n) == n # 0

\* Auto_ALM2.py estimate_post_sync: used, alloc from get_workspace_usage,
\* revision_size from os.path.getsize (0 when there is no file).
\* (a sign slip in `after`, not the code)
estimate_post_sync_minus(used, alloc, revision_size) ==
    LET after == used - revision_size
    IN  [used |-> used, alloc |-> alloc, revision_size |-> revision_size,
         after |-> after,
         pct_after |-> IF Truthy(alloc) /\ alloc > 0
                       THEN Fraction(after, alloc) ELSE ZeroPct]
estimate_post_sync(used, alloc, revision_size) ==
    LET after == used + revision_size
    IN  [used |-> used, alloc |-> alloc, revision_size |-> revision_size,
         after |-> after,
         pct_after |-> IF Truthy(alloc) /\ alloc > 0
                       THEN Fraction(after, alloc) ELSE ZeroPct]

\* Auto_ALM.py estimate_post_sync_size
estimate_post_sync_size(used, alloc, revision_size) ==
    LET after == used + revision_size
    IN  [used |-> used, alloc |-> alloc, revision_size |-> revision_size,
         after |-> after,
         pct_after |-> IF alloc > 0 THEN Fraction(after, alloc) ELSE ZeroPct]

\* Alm7.py estimate_post_sync_size
estimate_post_sync_size7(used, alloc, revision_size) ==
    LET after == used + revision_size
    IN  [used |-> used, alloc |-> alloc, revision_size |-> revision_size,
         after |-> after,
         pct_after |-> IF Truthy(alloc) THEN Fraction(after, alloc) ELSE ZeroPct]

\* 19.py size_percentage, as the fraction used*100/alloc over 100
size_percentage(used, alloc) ==
    IF alloc > 0 THEN Fraction(used, alloc) ELSE ZeroPct

\* The branch conditions that decide whether the user is warned and asked.
ElevatedALM2(size_info) ==
    Truthy(size_info.alloc) /\ Exceeds95(size_info.pct_after)
ElevatedALM(size_info) == Exceeds95(size_info.pct_after)
ElevatedAlm7(size_info) ==
    Truthy(size_info.alloc) /\ Exceeds95(size_info.pct_after)
\* 19.py: current_pct < safe_threshold (95.0)
BelowSafeThreshold19(pct) == pct.num * 100 < 95 * pct.den

CapInputs == [used : 0..MaxBytes, alloc : 0..MaxBytes, delta : 0..MaxDelta]

NoPrev == [variant |-> "none"]

CapIdle == cap = [phase |-> "off"]
ScanIdle == scan = [phase |-> "off"]
PollIdle == poll = [phase |-> "off"]
ThreadsIdle == worker = <<>> /\ lock = 0
FnIdle == ScanIdle /\ PollIdle /\ ThreadsIdle

PrIdle == pr = [phase |-> "off"]
RtIdle == rt = [phase |-> "off"]
MainIdle ==
    /\ pc = "off"
    /\ idx = 0
    /\ enriched = <<>>
    /\ planned = <<>>
    /\ results = <<>>
    /\ rt_name = <<>>
    /\ dev_revisions = <<>>
    /\ confirm_raw = <<>>
    /\ requests = <<>>
    /\ confirms = <<>>
    /\ token = "none"
    /\ plan_cont = <<>>

RunIdle ==
    /\ script = "off"
    /\ at = "off"
    /\ pair = 0
    /\ meta = <<>>
    /\ dev_tags = <<>>
    /\ tag = <<>>
    /\ tasks = <<>>
    /\ summary = <<>>
    /\ ops = <<>>

InitCap ==
    /\ \E in \in CapInputs :
        cap = [phase |-> "input", used |-> in.used, alloc |-> in.alloc,
               delta |-> in.delta, prev |-> NoPrev]
    /\ PrIdle
    /\ RtIdle
    /\ MainIdle
    /\ FnIdle
    /\ RunIdle

\* A check is made by the variant that made the previous one, if any.
CapReady(variant) ==
    /\ cap.phase = "input"
    /\ cap.prev.variant \in {"none", variant}

\* The outcome of one capacity check.  branch is "elevated" when the warning
\* is shown and the user is asked whether to proceed, "acceptable" when the
\* code reports the usage as acceptable / safe.
CapChecked(variant, size_info, branch, asked, proceed) ==
    /\ cap' = [phase |-> "checked", variant |-> variant,
               used |-> cap.used, alloc |-> cap.alloc, delta |-> cap.delta,
               after |-> size_info.after, branch |-> branch,
               asked |-> asked, proceed |-> proceed, prev |-> cap.prev]
    /\ UNCHANGED <<prVars, rtVars, mainVars, runVars, fnVars>>

\* Auto_ALM2.py ask_revision_choice_for_pair, lines 439-458
AskCapacity_AutoALM2 ==
    /\ CapReady("Auto_ALM2")
    /\ LET size_info == estimate_post_sync(cap.used, cap.alloc, cap.delta)
       IN  IF ElevatedALM2(size_info)
           THEN \E raw \in RawAnswers :
                   LET ans == OrDefault(Lower(Strip(raw)), No)
                   IN  CapChecked("Auto_ALM2", size_info, "elevated", TRUE,
                                  ans = Yes)
           ELSE CapChecked("Auto_ALM2", size_info, "acceptable", FALSE, TRUE)

\* Auto_ALM.py ask_revision_choice_for_pair, lines 404-420
AskCapacity_AutoALM ==
    /\ CapReady("Auto_ALM")
    /\ LET size_info == estimate_post_sync_size(cap.used, cap.alloc, cap.delta)
       IN  IF ElevatedALM(size_info)
           THEN \E raw \in RawAnswers :
                   LET cont == Lower(Strip(raw))
                   IN  CapChecked("Auto_ALM", size_info, "elevated", TRUE,
                                  cont = Yes)
           ELSE CapChecked("Auto_ALM", size_info, "acceptable", FALSE, TRUE)

\* Alm7.py ask_revision_choice_for_pair, lines 335-341
AskCapacity_Alm7 ==
    /\ CapReady("Alm7")
    /\ LET size_info == estimate_post_sync_size7(cap.used, cap.alloc, cap.delta)
       IN  IF ElevatedAlm7(size_info)
           THEN \E raw \in RawAnswers :
                   LET ans == OrDefault(Lower(Strip(raw)), No)
                   IN  CapChecked("Alm7", size_info, "elevated", TRUE,
                                  ans = Yes)
           ELSE CapChecked("Alm7", size_info, "acceptable", FALSE, TRUE)

\* 19.py main, lines 269-285: the check uses the current usage only; both
\* branches ask, the safe one with default 'y'.
SizeAnalysis_19 ==
    /\ CapReady("19")
    /\ LET current_pct == size_percentage(cap.used, cap.alloc)
           size_info == [after |-> cap.used]
       IN  \E raw \in RawAnswers :
             IF BelowSafeThreshold19(current_pct)
             THEN LET confirm == OrDefault(Lower(Strip(raw)), Yes)
                  IN  CapChecked("19", size_info, "acceptable", TRUE,
                                 confirm = Yes)
             ELSE LET confirm == Lower(Strip(raw))
                  IN  CapChecked("19", size_info, "elevated", TRUE,
                                 confirm = Yes)

\* The same target (used, alloc unchanged) is assessed once more by the same
\* variant, for a revision file at least as large.
AssessLargerDelta ==
    /\ cap.phase = "checked"
    /\ cap.prev = NoPrev
    /\ \E d \in cap.delta..MaxDelta :
         cap' = [phase |-> "input", used |-> cap.used, alloc |-> cap.alloc,
                 delta |-> d,
                 prev |-> [variant |-> cap.variant, delta |-> cap.delta,
                           branch |-> cap.branch]]
    /\ UNCHANGED <<prVars, rtVars, mainVars, runVars, fnVars>>

NextCap ==
    \/ AskCapacity_AutoALM2
    \/ AskCapacity_AutoALM
    \/ AskCapacity_Alm7
    \/ SizeAnalysis_19
    \/ AssessLargerDelta

SpecCap == InitCap /\ [][NextCap]_vars

(***************************************************************************)
(* Claims about the capacity check.                                        *)
(***************************************************************************)
CapVariantsDelta == {"Auto_ALM", "Auto_ALM2", "Alm7"}

\* C7 (as claimed): when allocatedBytes is 0 the capacity check of
\* Auto_ALM2.py and of 19.py takes the warning branch, never the
\* acceptable / safe one.
C7_UnknownCapacityWarns ==
    (cap.phase = "checked" /\ cap.variant \in {"Auto_ALM2", "19"}
        /\ cap.alloc = 0)
    => cap.branch = "elevated"

\* C8 (as claimed): for a positive allocation, a projected usage below 95%
\* is acceptable and a projected usage of exactly 95% already takes the
\* warning branch and asks the user.
C8_ExactlyAtThresholdAsks ==
    (cap.phase = "checked" /\ cap.variant \in CapVariantsDelta
        /\ cap.alloc > 0)
    => /\ cap.after * 100 < 95 * cap.alloc => cap.branch = "acceptable"
       /\ cap.after * 100 = 95 * cap.alloc
            => (cap.branch = "elevated" /\ cap.asked)

\* C8 (amended): for a positive allocation, a projected usage of at most 95%
\* (exactly 95% included) is reported acceptable and proceeds without asking;
\* the user is warned and asked only when it is strictly above 95%.
C8_AsksOnlyAbove95 ==
    (cap.phase = "checked" /\ cap.variant \in CapVariantsDelta
        /\ cap.alloc > 0)
    => /\ cap.after * 100 <= 95 * cap.alloc
            => (cap.branch = "acceptable" /\ ~cap.asked /\ cap.proceed)
       /\ cap.after * 100 > 95 * cap.alloc
            => (cap.branch = "elevated" /\ cap.asked)

C8_Witness ==
    /\ cap.phase = "checked"
    /\ cap.variant \in CapVariantsDelta
    /\ cap.alloc > 0
    /\ cap.after * 100 = 95 * cap.alloc
    /\ cap.branch = "acceptable"

\* C9: with usedBytes and allocatedBytes fixed, if Auto_ALM2.py's check took
\* the warning branch for a delta d, it takes it for every delta d' >= d.
C9_MonotonicInDelta ==
    (cap.phase = "checked" /\ cap.variant = "Auto_ALM2"
        /\ cap.prev.variant = "Auto_ALM2" /\ cap.prev.branch = "elevated")
    => cap.branch = "elevated"

C9_Witness ==
    /\ cap.phase = "checked"
    /\ cap.variant = "Auto_ALM2"
    /\ cap.prev.variant = "Auto_ALM2"
    /\ cap.prev.branch = "elevated"
    /\ cap.delta > cap.prev.delta
    /\ cap.branch = "elevated"


(***************************************************************************)
(* promote_revision_classic (53.py lines 225-286, 55.py lines 213-256)     *)
(***************************************************************************)
\* Names of actions of the PROD model, as character sequences.
NameExport   == <<"E", "x", "p", "o", "r", "t", " ", "A">>
NameAlm      == <<"A", "L", "M", " ", "S", "y", "n", "c">>
NamePromote  == <<"P", "r", "o", "m", "o", "t", "e">>
NameRevision == <<"R", "e", "v", "i", "s", "i", "o", "n">>
NameImport   == <<"I", "m", "p", "o", "r", "t", " ", "B">>
ActionNames  == {NameExport, NameAlm, NamePromote, NameRevision, NameImport}

KwAlm      == <<"a", "l", "m">>
KwPromote  == <<"p", "r", "o", "m", "o", "t", "e">>
KwRevision == <<"r", "e", "v", "i", "s", "i", "o", "n">>

\* "alm" in name or "promote" in name or "revision" in name, name lower-cased
MatchesHeuristic(act_name) ==
    LET name == Lower(act_name)
    IN  Contains(KwAlm, name) \/ Contains(KwPromote, name)
          \/ Contains(KwRevision, name)

\* The loop without its break: the last matching action wins.
RECURSIVE ScanActionsNoBreak(_, _, _)
ScanActionsNoBreak(actions, k, found) ==
    IF k > Len(actions) THEN found
    ELSE IF MatchesHeuristic(actions[k])
         THEN ScanActionsNoBreak(actions, k + 1, k)
         ELSE ScanActionsNoBreak(actions, k + 1, found)
\* for act in actions: if <match>: candidate = act; break
\* The result is the position of the candidate, 0 for None.
RECURSIVE ScanActions(_, _, _)
ScanActions(actions, k, found) ==
    IF k > Len(actions) THEN found
    ELSE IF MatchesHeuristic(actions[k])
         THEN k
         ELSE ScanActions(actions, k + 1, found)

\* candidate selection, 53.py lines 261-269
SelectCandidate(actions) ==
    LET candidate == ScanActions(actions, 1, 0)
    IN  IF candidate = 0 /\ actions # <<>> THEN 1 ELSE candidate

\* Only 200 counts (not the code's test).
IsAcceptedOnly200(status) == status = 200
\* Every 2xx counts (not the code's test).
IsAccepted2xx(status) == status >= 200 /\ status < 300
\* r.status_code in (200, 201, 202)
IsAccepted(status) == status \in {200, 201, 202}

\* requests' Response.raise_for_status raises for 4xx and 5xx only.
RaisesForStatus(status) == status >= 400 /\ status < 600

\* A response of the remote service: a status, or no response at all
\* (timeout, connection refused).
Transport == [kind |-> "raise"]
Status(n) == [kind |-> "status", status |-> n]

\* start_action_task, 53.py lines 204-220: does the call raise?
start_action_task_raises(resp) ==
    \/ resp.kind = "raise"
    \/ resp.kind = "status" /\ ~IsAccepted(resp.status)
         /\ RaisesForStatus(resp.status)

\* list_model_actions, 53.py lines 192-202: does the call raise?
list_model_actions_raises(resp) ==
    \/ resp.kind = "raise"
    \/ resp.kind = "status" /\ RaisesForStatus(resp.status)

\* The result of one call: the method returned, or the error raised, with
\* the requests sent, in order.
PromoteReturn(method, cand, reqs) ==
    [raised |-> FALSE, method |-> method, error |-> "none",
     candidate |-> cand, reqs |-> reqs]
PromoteRaise(error, cand, reqs) ==
    [raised |-> TRUE, method |-> "none", error |-> error,
     candidate |-> cand, reqs |-> reqs]

\* promote_revision_classic without `if not candidate: raise` (not the
\* code): the action task is started whatever the listing holds
promote_revision_classic_unguarded(variant, primary, listing, task) ==
    IF primary.kind = "status" /\ IsAccepted(primary.status)
    THEN PromoteReturn("revision_promote", 0, <<"promote">>)
    ELSE IF list_model_actions_raises(listing)
    THEN PromoteRaise("cannot list actions", 0, <<"promote", "list_actions">>)
    ELSE IF start_action_task_raises(task)
    THEN PromoteRaise("both routes failed", 0,
                      <<"promote", "list_actions", "start_task">>)
    ELSE PromoteReturn("actions_task", 0,
                       <<"promote", "list_actions", "start_task">>)

\* variant is "53" or "55": 55.py lets the exception of start_action_task
\* through, 53.py wraps it in a RuntimeError.
promote_revision_classic(variant, primary, listing, task) ==
    IF primary.kind = "status" /\ IsAccepted(primary.status)
    THEN PromoteReturn("revision_promote", 0, <<"promote">>)
    ELSE IF list_model_actions_raises(listing)
    THEN PromoteRaise("cannot list actions", 0, <<"promote", "list_actions">>)
    ELSE LET candidate == SelectCandidate(listing.actions)
         IN  IF candidate = 0
             THEN PromoteRaise("no actions", 0, <<"promote", "list_actions">>)
             ELSE IF start_action_task_raises(task)
             THEN PromoteRaise(IF variant = "53" THEN "both routes failed"
                                                 ELSE "action task failed",
                               candidate,
                               <<"promote", "list_actions", "start_task">>)
             ELSE PromoteReturn("actions_task", candidate,
                                <<"promote", "list_actions", "start_task">>)

PrimaryStatuses == {200, 201, 202, 204, 404, 405, 503}
TaskStatuses == {200, 201, 202, 204, 404, 500}
PrimaryResponses == {Status(n) : n \in PrimaryStatuses} \cup {Transport}
TaskResponses == {Status(n) : n \in TaskStatuses} \cup {Transport}
ActionLists == UNION {[1..n -> ActionNames] : n \in 0..MaxActions}
ListingResponses ==
    {[kind |-> "status", status |-> 200, actions |-> a] : a \in ActionLists}
      \cup {Status(500), Transport}

InitPromote ==
    /\ \E p \in PrimaryResponses, l \in ListingResponses, t \in TaskResponses :
         pr = [phase |-> "input", primary |-> p, listing |-> l, task |-> t]
    /\ CapIdle
    /\ RtIdle
    /\ MainIdle
    /\ FnIdle
    /\ RunIdle

PromoteCall(variant) ==
    /\ pr.phase = "input"
    /\ pr' = [phase |-> "returned", variant |-> variant,
              primary |-> pr.primary, listing |-> pr.listing, task |-> pr.task,
              result |-> promote_revision_classic(variant, pr.primary,
                                                  pr.listing, pr.task)]
    /\ UNCHANGED <<capVars, rtVars, mainVars, runVars, fnVars>>

PromoteCall53 == PromoteCall("53")
PromoteCall55 == PromoteCall("55")

NextPromote == PromoteCall53 \/ PromoteCall55

SpecPromote == InitPromote /\ [][NextPromote]_vars

(***************************************************************************)
(* Claims about promote_revision_classic.                                  *)
(***************************************************************************)
PrimaryAccepted ==
    pr.primary.kind = "status" /\ pr.primary.status \in {200, 201, 202}

\* The fallback got as far as choosing among the listed actions.
FallbackChose ==
    /\ pr.phase = "returned"
    /\ Len(pr.result.reqs) >= 2
    /\ pr.listing.kind = "status"
    /\ pr.listing.status = 200
    /\ pr.listing.actions # <<>>

IsPrefix(a, b) == Len(a) <= Len(b) /\ SubSeq(b, 1, Len(a)) = a

\* C4: the primary promote request is sent first; the fallback requests
\* (list actions, start action task) are sent only if the primary returned a
\* non-success status or raised; a successful primary returns method
\* 'revision_promote' and sends nothing else; a failed primary followed by a
\* successful task start returns method 'actions_task'.
C4_TwoTiersInOrder ==
    pr.phase = "returned" =>
        LET r == pr.result
        IN  /\ r.reqs # <<>>
            /\ IsPrefix(r.reqs, <<"promote", "list_actions", "start_task">>)
            /\ Len(r.reqs) > 1 => ~PrimaryAccepted
            /\ PrimaryAccepted
                 => (~r.raised /\ r.method = "revision_promote"
                       /\ r.reqs = <<"promote">>)
            /\ (~PrimaryAccepted /\ Len(r.reqs) = 3
                  /\ pr.task.kind = "status"
                  /\ pr.task.status \in {200, 201, 202})
                 => (~r.raised /\ r.method = "actions_task")

C4_Witness ==
    /\ pr.phase = "returned"
    /\ pr.primary.kind = "status"
    /\ pr.primary.status = 503
    /\ pr.result.method = "actions_task"
    /\ pr.result.reqs = <<"promote", "list_actions", "start_task">>

HasKeyword(kw, act_name) == Contains(kw, Lower(act_name))
HasAnyKeyword(act_name) ==
    \E kw \in {KwAlm, KwPromote, KwRevision} : HasKeyword(kw, act_name)

\* The lowest position holding a name with the keyword, 0 if there is none.
FirstWith(kw, actions) ==
    IF \E k \in 1..Len(actions) : HasKeyword(kw, actions[k])
    THEN CHOOSE k \in 1..Len(actions) :
            /\ HasKeyword(kw, actions[k])
            /\ \A j \in 1..(k - 1) : ~HasKeyword(kw, actions[j])
    ELSE 0

PriorityChoice(actions) ==
    IF FirstWith(KwAlm, actions) # 0 THEN FirstWith(KwAlm, actions)
    ELSE IF FirstWith(KwPromote, actions) # 0 THEN FirstWith(KwPromote, actions)
    ELSE IF FirstWith(KwRevision, actions) # 0
         THEN FirstWith(KwRevision, actions)
    ELSE 1

\* C5 (as claimed): the fallback selects by priority, independent of list
\* position: an action containing 'alm' before one containing 'promote'
\* before one containing 'revision', and the first listed one only if none
\* matches.
C5_PriorityIndependentOfPosition ==
    FallbackChose
    => pr.result.candidate = PriorityChoice(pr.listing.actions)

\* C5 (amended): the fallback selects the first listed action whose
\* lower-cased name contains any of 'alm', 'promote', 'revision', whichever
\* of the three it is; only if no action matches is the first listed taken.
C5_FirstListedMatchWins ==
    FallbackChose =>
        LET actions == pr.listing.actions
            c == pr.result.candidate
        IN  /\ c \in 1..Len(actions)
            /\ IF \E k \in 1..Len(actions) : HasAnyKeyword(actions[k])
               THEN /\ HasAnyKeyword(actions[c])
                    /\ \A j \in 1..(c - 1) : ~HasAnyKeyword(actions[j])
               ELSE c = 1

C5_Witness ==
    /\ FallbackChose
    /\ LET actions == pr.listing.actions
           c == pr.result.candidate
       IN  /\ HasKeyword(KwPromote, actions[c])
           /\ ~HasKeyword(KwAlm, actions[c])
           /\ \E k \in (c + 1)..Len(actions) : HasKeyword(KwAlm, actions[k])

\* C6 (as claimed): every 2xx status of the primary promote endpoint is
\* success: method 'revision_promote' and no fallback request.
C6_Every2xxIsSuccess ==
    (pr.phase = "returned" /\ pr.primary.kind = "status"
        /\ pr.primary.status >= 200 /\ pr.primary.status < 300)
    => (pr.result.method = "revision_promote"
          /\ pr.result.reqs = <<"promote">>)

\* C6 (amended): exactly the statuses 200, 201 and 202 of the primary promote
\* endpoint are success (method 'revision_promote', no fallback request);
\* every other status, another 2xx such as 204 included, is handled as a
\* failure of the primary and the fallback's list-actions request is sent.
C6_Only200To202IsSuccess ==
    (pr.phase = "returned" /\ pr.primary.kind = "status") =>
        IF pr.primary.status \in {200, 201, 202}
        THEN /\ ~pr.result.raised
             /\ pr.result.method = "revision_promote"
             /\ pr.result.reqs = <<"promote">>
        ELSE /\ pr.result.method # "revision_promote"
             /\ Len(pr.result.reqs) >= 2
             /\ pr.result.reqs[2] = "list_actions"

C6_Witness ==
    /\ pr.phase = "returned"
    /\ pr.primary.kind = "status"
    /\ pr.primary.status = 204
    /\ pr.result.method = "actions_task"

(***************************************************************************)
(* prompt_for_rt_option (53.py lines 291-369)                              *)
(*                                                                         *)
(* Names of revision tags are character sequences; None is the empty       *)
(* sequence (the code only tests a name's truthiness).                     *)
(***************************************************************************)
RT_RETRY == 2

NoneName == <<>>
AutoName == <<"A", "U", "T", "O">>          \* f"AUTO_RT_{ts()}"
RevNames == {<<"a">>, <<"b">>}
RevisionLists == UNION {[1..n -> RevNames] : n \in 0..MaxRevs}

\* What the user may type at the menu, at a name prompt, at the selection.
MenuInputs == {<<"1">>, <<"2">>, <<" ", "3">>, <<"4">>, <<"5">>, <<>>}
NameInputs == {<<>>, <<" ">>, <<"n">>}
SelTokens  == {<<"c">>, <<"C">>, <<"x">>, <<>>, <<"0">>, <<"1">>, <<"2">>,
               <<"3">>}

Digits == {"0", "1", "2", "3", "4", "5", "6", "7", "8", "9"}
\* str.isdigit()
IsDigit(s) == s # <<>> /\ \A k \in 1..Len(s) : s[k] \in Digits
DigitValue(c) == CASE c = "0" -> 0 [] c = "1" -> 1 [] c = "2" -> 2
                   [] c = "3" -> 3 [] c = "4" -> 4 [] c = "5" -> 5
                   [] c = "6" -> 6 [] c = "7" -> 7 [] c = "8" -> 8
                   [] c = "9" -> 9
\* int(s) for a string of digits
RECURSIVE ToInt(_)
ToInt(s) == IF s = <<>> THEN 0
            ELSE 10 * ToInt(SubSeq(s, 1, Len(s) - 1)) + DigitValue(s[Len(s)])

\* name = input(...).strip(); if not name: name = f"AUTO_RT_{ts()}"
NewRtName(raw) == IF Strip(raw) = <<>> THEN AutoName ELSE Strip(raw)

\* while attempts < RT_RETRY (not the code's condition)
RetryAllowedStrict(attempts) == attempts < RT_RETRY
\* while attempts <= RT_RETRY
RetryAllowed(attempts) == attempts <= RT_RETRY

\* The list-with-retry loop, lines 317-326.  The first `fails` calls of
\* list_revision_tags raise, every later one returns the listing.  The
\* result tells whether the listing was obtained and how many calls were
\* made.
RECURSIVE ListRetryLoop(_, _)
ListRetryLoop(attempts, fails) ==
    IF RetryAllowed(attempts)
    THEN IF attempts + 1 > fails
         THEN [listed |-> TRUE, calls |-> attempts + 1]
         ELSE ListRetryLoop(attempts + 1, fails)
    ELSE [listed |-> FALSE, calls |-> attempts]

\* The selection loop, lines 357-368, over the entries typed one after the
\* other: "select" with the chosen position, "cancel", or "pending" when the
\* loop still waits for an entry.
RECURSIVE SelectLoop(_, _)
SelectLoop(names, toks) ==
    IF toks = <<>> THEN [kind |-> "pending", idx |-> 0]
    ELSE LET sel == Lower(Strip(Head(toks)))
         IN  IF sel = <<"c">> THEN [kind |-> "cancel", idx |-> 0]
             ELSE IF ~IsDigit(sel) THEN SelectLoop(names, Tail(toks))
             ELSE LET pos == ToInt(sel) - 1
                  IN  IF pos < 0 \/ pos >= Len(names)
                      THEN SelectLoop(names, Tail(toks))
                      ELSE [kind |-> "select", idx |-> pos + 1]

\* The entries typed until the selection loop ends: it ends at the last one.
SelInputs(names) ==
    {toks \in UNION {[1..n -> SelTokens] : n \in 1..MaxSelTries} :
        /\ SelectLoop(names, toks).kind # "pending"
        /\ SelectLoop(names, SubSeq(toks, 1, Len(toks) - 1)).kind = "pending"}

\* One pass of the `while True` loop: what it returned, or that the menu is
\* shown again, with what the pass read and did.
RoundInfo(choice, fails, l, cont, sel) ==
    [choice |-> choice, fails |-> fails, calls |-> l.calls,
     listed |-> l.listed, cont |-> cont, sel |-> sel]
NoList == [listed |-> FALSE, calls |-> 0]
RoundReturn(action, revision, info) ==
    [outcome |-> "returned", action |-> action, revision |-> revision,
     info |-> info]
RoundAgain(info) ==
    [outcome |-> "again", action |-> "none", revision |-> NoneName,
     info |-> info]

\* Choices 2 and 3 once the listing was obtained, lines 335-368.
RoundListed(choice, revisions, info) ==
    IF choice = <<"2">>
    THEN IF revisions = <<>>
         THEN {RoundAgain(info)}
         ELSE {RoundReturn("latest", revisions[Len(revisions)], info)}
    ELSE IF revisions = <<>>
         THEN {IF OrDefault(Lower(Strip(c)), Yes) = Yes
               THEN RoundReturn("create", NewRtName(n), info)
               ELSE RoundReturn("skip", NoneName, info)
                 : c \in RawAnswers, n \in NameInputs}
         ELSE {LET s == SelectLoop(revisions, toks)
                   i == [info EXCEPT !.sel = s.kind]
               IN  IF s.kind = "select"
                   THEN RoundReturn("select", revisions[s.idx], i)
                   ELSE RoundAgain(i)
                 : toks \in SelInputs(revisions)}

\* Choices 2 and 3, lines 316-368.
RoundWithListing(choice, revisions) ==
    UNION {LET l == ListRetryLoop(0, fails)
           IN  IF ~l.listed
               THEN {LET cont == OrDefault(Lower(Strip(raw)), Yes)
                         info == RoundInfo(choice, fails, l, cont, "na")
                     IN  IF cont # Yes
                         THEN RoundReturn("skip", NoneName, info)
                         ELSE RoundAgain(info)
                       : raw \in RawAnswers}
               ELSE RoundListed(choice, revisions,
                                RoundInfo(choice, fails, l, <<>>, "na"))
             : fails \in 0..MaxListFails}

\* Every way one pass of the menu loop can go on a DEV model holding
\* `revisions`.
RoundOutcomes(revisions) ==
    UNION {LET choice == Strip(raw)
               info == RoundInfo(choice, 0, NoList, <<>>, "na")
           IN  IF choice \notin {<<"1">>, <<"2">>, <<"3">>, <<"4">>}
               THEN {RoundAgain(info)}
               ELSE IF choice = <<"4">>
               THEN {RoundReturn("skip", NoneName, info)}
               ELSE IF choice = <<"1">>
               THEN {RoundReturn("create", NewRtName(n), info)
                       : n \in NameInputs}
               ELSE RoundWithListing(choice, revisions)
             : raw \in MenuInputs}

InitPrompt ==
    /\ \E revisions \in RevisionLists :
         rt = [phase |-> "menu", revisions |-> revisions]
    /\ CapIdle
    /\ PrIdle
    /\ MainIdle
    /\ FnIdle
    /\ RunIdle

\* One pass of the menu loop of prompt_for_rt_option.
PromptRound ==
    /\ rt.phase = "menu"
    /\ \E o \in RoundOutcomes(rt.revisions) :
         rt' = [phase |-> IF o.outcome = "returned" THEN "returned" ELSE "menu",
                revisions |-> rt.revisions, last |-> o]
    /\ UNCHANGED <<capVars, prVars, mainVars, runVars, fnVars>>

NextPrompt == PromptRound

SpecPrompt == InitPrompt /\ [][NextPrompt]_vars

(***************************************************************************)
(* Claims about prompt_for_rt_option.                                      *)
(***************************************************************************)
RoundListedChoice ==
    /\ rt.phase # "off"
    /\ "last" \in DOMAIN rt
    /\ rt.last.info.choice \in {<<"2">>, <<"3">>}

InList(name, revisions) == \E k \in 1..Len(revisions) : revisions[k] = name

\* The choice resolved to a revision of the listing.
ResolvedToListed ==
    /\ rt.last.outcome = "returned"
    /\ rt.last.action = (IF rt.last.info.choice = <<"2">> THEN "latest"
                                                          ELSE "select")
    /\ InList(rt.last.revision, rt.revisions)

Pairs == 1..NumPairs

\* The remote revision lists the run may start from.
MainRevisionLists == {<<>>, <<<<"a">>, <<"b">>>>}

NoRequests ==
    [invoked |-> 0, promote |-> 0, list_actions |-> 0, start_task |-> 0,
     create |-> 0, revision |-> NoneName, seen |-> "none", lists |-> 0]

Init ==
    /\ pc = "auth"
    /\ idx = 1
    /\ enriched = <<>>
    /\ planned = <<>>
    /\ results = <<>>
    /\ rt_name = NoneName
    /\ dev_revisions \in [Pairs -> MainRevisionLists]
    /\ confirm_raw = <<>>
    /\ requests = [p \in Pairs |-> NoRequests]
    /\ confirms = [p \in Pairs |-> "unasked"]
    /\ token = "none"
    /\ plan_cont = <<>>
    /\ CapIdle
    /\ PrIdle
    /\ RtIdle
    /\ RunIdle
    /\ FnIdle

Others == <<capVars, prVars, rtVars, runVars, fnVars>>

\* lines 393-403: authenticate, sys.exit(1) when it raises
\* main goes on to the enrichment whether authenticate raised or not (not
\* the code: the handler without sys.exit)
AfterAuthenticateNoExit(ok) == "enrich"
\* lines 399-403: sys.exit(1) in the handler of a failed authenticate
AfterAuthenticate(ok) == IF ok THEN "enrich" ELSE "exit_auth"

Authenticate ==
    /\ pc = "auth"
    /\ \E ok \in BOOLEAN :
         /\ token' = IF ok THEN "token" ELSE "none"
         /\ pc' = AfterAuthenticate(ok)
    /\ UNCHANGED <<idx, enriched, planned, results, rt_name, dev_revisions,
                   confirm_raw, requests, confirms, plan_cont, Others>>

\* lines 408-436: one pass of the enrichment loop; the metadata requests of
\* the pair succeed or one of them raises.
EnrichPair ==
    /\ pc = "enrich"
    /\ \E error \in BOOLEAN :
         enriched' = Append(enriched, [index |-> idx, error |-> error])
    /\ IF idx = NumPairs
       THEN pc' = "prompt" /\ idx' = 1
       ELSE pc' = pc /\ idx' = idx + 1
    /\ UNCHANGED <<planned, results, rt_name, dev_revisions, confirm_raw,
                   requests, confirms, token, plan_cont, Others>>

\* The planning loop moves to its next entry, or on to the summary and the
\* global proceed prompt.
PlanAdvance ==
    IF idx = NumPairs
    THEN pc' = "proceed" /\ idx' = 1
    ELSE pc' = pc /\ idx' = idx + 1

\* lines 462-465: an entry with a metadata error is planned as a skip
PlanMetadataError ==
    /\ pc = "prompt"
    /\ enriched[idx].error
    /\ planned' = Append(planned, [index |-> idx, action |-> "skip",
                                   revision |-> NoneName,
                                   reason |-> "metadata error"])
    /\ PlanAdvance
    /\ UNCHANGED <<enriched, results, rt_name, dev_revisions, confirm_raw,
                   requests, confirms, token, plan_cont, Others>>

\* lines 466-480: one pass of the menu loop of prompt_for_rt_option for the
\* entry; when it returns, the item is planned.
PlanPromptRound ==
    /\ pc = "prompt"
    /\ ~enriched[idx].error
    /\ \E o \in RoundOutcomes(dev_revisions[idx]) :
         IF o.outcome = "returned"
         THEN /\ planned' = Append(planned, [index |-> idx,
                                             action |-> o.action,
                                             revision |-> o.revision,
                                             reason |-> "none"])
              /\ PlanAdvance
         ELSE UNCHANGED <<planned, pc, idx>>
    /\ UNCHANGED <<enriched, results, rt_name, dev_revisions, confirm_raw,
                   requests, confirms, token, plan_cont, Others>>

\* the run is cancelled only on an explicit 'n' (not the code's test)
ProceedDeclinedOnlyN(cont) == cont = No
\* lines 489-490: cont != "y"
ProceedDeclined(cont) == cont # Yes

\* lines 489-496: the global proceed prompt, default 'n'
ProceedPrompt ==
    /\ pc = "proceed"
    /\ \E raw \in RawAnswers :
         LET cont == OrDefault(Lower(Strip(raw)), No)
         IN  /\ plan_cont' = cont
             /\ pc' = IF ProceedDeclined(cont) THEN "exit_cancel"
                                               ELSE "execute"
    /\ UNCHANGED <<idx, enriched, planned, results, rt_name, dev_revisions,
                   confirm_raw, requests, confirms, token, Others>>

\* The execute loop moves to its next item, or on to the final results.
ExecAdvance ==
    IF idx = NumPairs
    THEN pc' = "done" /\ idx' = idx
    ELSE pc' = "execute" /\ idx' = idx + 1

Result(i, status, detail) == [index |-> i, status |-> status, detail |-> detail]

\* An item whose usage fetch failed is dropped (not the code: the `continue`
\* without the append before it).
AppendResultDropUsageFailure(rs, i, status, detail) ==
    IF status = "Failed to fetch prod usage" THEN rs
    ELSE Append(rs, Result(i, status, detail))
\* results.append((p, status))
AppendResult(rs, i, status, detail) == Append(rs, Result(i, status, detail))

\* lines 499-501: a planned skip
ExecSkip ==
    /\ pc = "execute"
    /\ planned[idx].action = "skip"
    /\ results' = AppendResult(results, planned[idx].index, "Skipped", "none")
    /\ ExecAdvance
    /\ UNCHANGED <<enriched, planned, rt_name, dev_revisions, confirm_raw,
                   requests, confirms, token, plan_cont, Others>>

\* create_revision_tag, lines 174-187, for one response: what it returns
\* ("raise", or the value bound to `created`).  body is the kind of body a
\* 201/202 response carries.
CreateBodies == {"named", "empty", "nonjson"}
create_revision_tag(resp, body) ==
    IF resp.kind = "raise" THEN "raise"
    ELSE IF resp.status \in {201, 202}
         THEN IF body = "nonjson" THEN "named" ELSE body
         ELSE IF RaisesForStatus(resp.status) THEN "raise" ELSE "None"

\* The create-with-retry loop, lines 507-518: the first `fails` calls raise,
\* a later one gets `resp`.  Tells how many calls were made and what
\* `created` is in the end.
RECURSIVE CreateRetryLoop(_, _, _)
CreateRetryLoop(attempts, fails, last) ==
    IF RetryAllowed(attempts)
    THEN IF attempts + 1 > fails /\ last # "raise"
         THEN [created |-> last, calls |-> attempts + 1]
         ELSE CreateRetryLoop(attempts + 1, fails, last)
    ELSE [created |-> "None", calls |-> attempts]

CreateResponses == {Status(201), Status(202), Status(204), Status(409),
                    Transport}
\* How many create calls raise before the remote answers: none, one, all.
MainCreateFails == {0, 1, RT_RETRY + 1}

\* The revision name prepared for a planned item, lines 504-541: either the
\* name, or the failure of the preparation.  `calls` create requests are
\* sent, `added` tells whether the DEV model got the new tag.
Prepared(name, calls, added) ==
    [ok |-> TRUE, rt_name |-> name, calls |-> calls, added |-> added]
PrepFailed(calls, added) ==
    [ok |-> FALSE, rt_name |-> NoneName, calls |-> calls, added |-> added]

PrepareOutcomes(p, revisions) ==
    IF p.action = "create"
    THEN {LET last == create_revision_tag(resp, body)
              l == CreateRetryLoop(0, fails, last)
              added == l.created # "None" \/
                         (l.calls > fails /\ resp.kind = "status"
                            /\ resp.status \in {201, 202})
          IN  IF l.created \in {"None", "empty"}
              THEN PrepFailed(l.calls, added)
              ELSE Prepared(p.revision, l.calls, added)
            : resp \in CreateResponses, body \in CreateBodies,
              fails \in MainCreateFails}
    ELSE IF p.action = "latest"
    THEN {IF listed /\ revisions # <<>>
          THEN Prepared(revisions[Len(revisions)], 0, FALSE)
          ELSE PrepFailed(0, FALSE)
            : listed \in BOOLEAN}
    ELSE IF p.action = "select"
    THEN {IF p.revision = NoneName
          THEN PrepFailed(0, FALSE)
          ELSE Prepared(p.revision, 0, FALSE)}
    ELSE {PrepFailed(0, FALSE)}

\* lines 525-526: the 'latest' branch calls list_revision_tags once, with
\* no loop around it
ListCalls(p) == IF p.action = "latest" THEN 1 ELSE 0

\* lines 503-551: prepare the revision name of the item, then fetch the PROD
\* workspace usage; the item ends here on a failure, else main stops at the
\* item's confirmation prompt.
ExecPrepare ==
    /\ pc = "execute"
    /\ planned[idx].action # "skip"
    /\ LET p == planned[idx]
       IN  \E o \in PrepareOutcomes(p, dev_revisions[idx]),
              usage_ok \in BOOLEAN :
             /\ requests' = [requests EXCEPT ![idx].create = o.calls,
                                             ![idx].lists = ListCalls(p)]
             /\ dev_revisions' =
                  IF o.added
                  THEN [dev_revisions EXCEPT
                          ![idx] = Append(@, p.revision)]
                  ELSE dev_revisions
             /\ IF ~o.ok
                THEN /\ results' = AppendResult(results, p.index,
                                                "Preparation failed", "none")
                     /\ rt_name' = rt_name
                     /\ ExecAdvance
                ELSE IF ~usage_ok
                THEN /\ results' = AppendResult(results, p.index,
                                        "Failed to fetch prod usage", "none")
                     /\ rt_name' = o.rt_name
                     /\ ExecAdvance
                ELSE /\ rt_name' = o.rt_name
                     /\ pc' = "confirm"
                     /\ UNCHANGED <<idx, results>>
    /\ UNCHANGED <<enriched, planned, confirm_raw, confirms, token, plan_cont, Others>>

\* What the remote side answered to the promotion of a pair: whether the
\* primary request was accepted, and whether the PROD model has actions
Seen(primary, listing) ==
    [accepted |-> primary.kind = "status" /\ primary.status \in {200, 201, 202},
     actions |-> IF primary.kind = "status"
                      /\ primary.status \in {200, 201, 202}
                 THEN "unasked"
                 ELSE IF listing.kind # "status" \/ listing.status # 200
                 THEN "unlisted"
                 ELSE IF listing.actions = <<>> THEN "none" ELSE "some"]

\* The remote responses a promotion may meet in main.
MainPrimaryResponses == {Status(200), Status(503), Transport}
MainListingResponses ==
    {[kind |-> "status", status |-> 200, actions |-> a]
        : a \in {<<>>, <<NameExport, NameAlm>>}} \cup {Transport}
MainTaskResponses == {Status(202), Status(500)}

\* What the user may type at an item's confirmation prompt.
MainAnswers == {<<>>, <<"n">>, <<"Y", " ">>, <<"y", "e", "s">>}

Count(reqs, kind) == Cardinality({k \in 1..Len(reqs) : reqs[k] = kind})

\* The answer with default 'y' (not the code's default).
ConfirmAnswerDefaultYes(raw) == OrDefault(Lower(Strip(raw)), Yes)
\* line 553: input(...).strip().lower() or "n"
ConfirmAnswer(raw) == OrDefault(Lower(Strip(raw)), No)

\* confirm != "y" at the item's prompt (not the code's test: cancels only on
\* an explicit 'n')
ConfirmDeclinedOnlyN(answer) == answer = No
\* lines 553-554: confirm != "y"
ConfirmDeclined(answer) == answer # Yes

\* lines 553-566: the item's confirmation prompt, default 'n', and on 'y'
\* the call of promote_revision_classic.
ExecConfirm ==
    /\ pc = "confirm"
    /\ LET p == planned[idx]
       IN  \E raw \in MainAnswers :
            LET answer == ConfirmAnswer(raw)
            IN  /\ confirm_raw' = raw
                /\ confirms' = [confirms EXCEPT
                                  ![idx] = IF answer = Yes THEN "y"
                                                           ELSE "other"]
                /\ IF ConfirmDeclined(answer)
                   THEN /\ results' = AppendResult(results, p.index,
                                                   "User canceled", "none")
                        /\ UNCHANGED requests
                   ELSE \E primary \in MainPrimaryResponses,
                           listing \in MainListingResponses,
                           task \in MainTaskResponses :
                          LET r == promote_revision_classic("53", primary,
                                                            listing, task)
                          IN  /\ requests' = [requests EXCEPT ![idx] =
                                   [@ EXCEPT
                                      !.invoked = @ + 1,
                                      !.promote = @ + Count(r.reqs, "promote"),
                                      !.list_actions =
                                          @ + Count(r.reqs, "list_actions"),
                                      !.start_task =
                                          @ + Count(r.reqs, "start_task"),
                                      !.revision = rt_name,
                                      !.seen = Seen(primary, listing)]]
                              /\ results' =
                                   IF r.raised
                                   THEN AppendResult(results, p.index,
                                            "Promote failed", r.error)
                                   ELSE AppendResult(results, p.index,
                                            "Promote initiated", r.method)
    /\ ExecAdvance
    /\ UNCHANGED <<enriched, planned, rt_name, dev_revisions, token, plan_cont, Others>>

Next ==
    \/ Authenticate
    \/ EnrichPair
    \/ PlanMetadataError
    \/ PlanPromptRound
    \/ ProceedPrompt
    \/ ExecSkip
    \/ ExecPrepare
    \/ ExecConfirm

Spec == Init /\ [][Next]_vars

\* The remote side between the planning and the end of the run: another
\* user, or another run, adds a revision tag to the DEV model of a pair.
\* Each DEV model gains at most one such tag.
RemoteName == <<"r">>
RemoteRevisionAdded ==
    /\ pc \in {"prompt", "proceed", "execute", "confirm"}
    /\ \E p \in Pairs :
         /\ \A k \in 1..Len(dev_revisions[p]) :
               dev_revisions[p][k] # RemoteName
         /\ dev_revisions' = [dev_revisions EXCEPT
                                ![p] = Append(@, RemoteName)]
    /\ UNCHANGED <<pc, idx, enriched, planned, results, rt_name, confirm_raw,
                   requests, confirms, token, plan_cont, Others>>

NextRemote ==
    \/ Next
    \/ RemoteRevisionAdded

\* main of 53.py while the DEV models change under it
SpecRemote == Init /\ [][NextRemote]_vars

(***************************************************************************)
(* Claims about main of 53.py.                                             *)
(***************************************************************************)
Recorded(p) == \E k \in 1..Len(results) : results[k].index = p
StatusOf(p) == results[CHOOSE k \in 1..Len(results) : results[k].index = p].status

\* C1: when the run reaches the final results, the results list holds
\* exactly one entry per configured pair, in configuration order, whatever
\* the outcome of each pair was.
C1_OneResultPerPairInOrder ==
    pc = "done" =>
        /\ Len(results) = NumPairs
        /\ \A k \in 1..NumPairs : results[k].index = k

C1_Witness ==
    /\ pc = "done"
    /\ Len(results) = NumPairs
    /\ results[1].status = "Failed to fetch prod usage"
    /\ results[NumPairs].status = "Promote failed"
    /\ \A k \in 1..NumPairs : results[k].index = k

NoPromotionRequest(p) ==
    /\ requests[p].invoked = 0
    /\ requests[p].promote = 0
    /\ requests[p].list_actions = 0
    /\ requests[p].start_task = 0

\* One step of the run keeps, for pair p, the promotion executor called at
\* most once and only on a 'y', with at most one primary and one fallback
\* task request, and sends nothing for p once p's outcome is recorded.
C2_Step(p) ==
    /\ requests'[p].invoked <= 1
    /\ requests'[p].invoked = 1 => confirms'[p] = "y"
    /\ requests'[p].promote <= requests'[p].invoked
    /\ requests'[p].start_task <= requests'[p].invoked
    /\ requests'[p].promote + requests'[p].start_task <= 2
    /\ Recorded(p) => requests'[p] = requests[p]

\* C2: for every pair, promote_revision_classic is invoked at most once and
\* only after the pair was confirmed; it sends at most one primary promote
\* request and at most one fallback action-task request; and no request is
\* sent for a pair after its outcome has been recorded.
C2_PromotedAtMostOnce == [][\A p \in Pairs : C2_Step(p)]_vars

C2_Witness ==
    /\ pc = "done"
    /\ requests[1].invoked = 1
    /\ requests[1].promote = 1
    /\ requests[1].start_task = 1
    /\ confirms[1] = "y"
    /\ Recorded(1)

\* The pair whose confirmation prompt was answered last.
LastAsked ==
    CHOOSE p \in Pairs :
        /\ confirms[p] # "unasked"
        /\ \A q \in Pairs : confirms[q] # "unasked" => q <= p

Cancelled(p) ==
    /\ Recorded(p)
    /\ StatusOf(p) = "User canceled"
    /\ NoPromotionRequest(p)

\* C3: if what is typed at a pair's confirmation prompt is, once stripped and
\* lower-cased, anything other than 'y' (the empty input included), the
\* pair's outcome is 'User canceled' and no primary and no fallback promotion
\* request is ever sent for the pair.
C3_DeclinedNeverPromoted ==
    /\ \A p \in Pairs : confirms[p] = "other" => Cancelled(p)
    /\ (\E p \in Pairs : confirms[p] # "unasked")
         => (Lower(Strip(confirm_raw)) # Yes => Cancelled(LastAsked))

C3_Witness ==
    /\ pc = "done"
    /\ confirms[1] = "other"
    /\ confirm_raw = <<>>
    /\ LastAsked = NumPairs
    /\ Cancelled(1)
    /\ Cancelled(NumPairs)

(***************************************************************************)
(* The list-with-retry loops, call by call: prompt_rt_choice of 51.py      *)
(* (lines 264-281) and prompt_for_rt_option of 52.py (222-239) and 53.py   *)
(* (316-333).  rt.calls counts the list_revision_tags calls made since the *)
(* user was last prompted, rt.total the failed calls of the whole run.     *)
(***************************************************************************)
ListVariants == {"51", "52", "53"}

InitList ==
    /\ \E v \in ListVariants, revisions \in RevisionLists :
         rt = [phase |-> "list", variant |-> v, attempts |-> 0, calls |-> 0,
               total |-> 0, revisions |-> revisions]
    /\ CapIdle
    /\ PrIdle
    /\ MainIdle
    /\ FnIdle
    /\ RunIdle

\* 51.py asks after the next failure (not the code's test)
RetriesExhaustedLate(retries) == retries > RT_RETRY
\* 51.py line 273: if retries >= RT_RETRY
RetriesExhausted(retries) == retries >= RT_RETRY

\* 51.py lines 266-268: list_revision_tags returned, break
ListSucceeds51 ==
    /\ rt.phase = "list"
    /\ rt.variant = "51"
    /\ rt' = [rt EXCEPT !.phase = "listed", !.calls = @ + 1]
    /\ UNCHANGED <<capVars, prVars, mainVars, runVars, fnVars>>

\* 51.py lines 269-281: list_revision_tags raised
ListFails51 ==
    /\ rt.phase = "list"
    /\ rt.variant = "51"
    /\ rt.total < MaxListFails
    /\ rt' = [rt EXCEPT !.attempts = @ + 1, !.calls = @ + 1,
                        !.total = @ + 1,
                        !.phase = IF RetriesExhausted(rt.attempts + 1)
                                  THEN "ask" ELSE "list"]
    /\ UNCHANGED <<capVars, prVars, mainVars, runVars, fnVars>>

\* 51.py lines 275-280: retry = input("Retry listing? (y/n): ")
RetryListing51 ==
    /\ rt.phase = "ask"
    /\ rt.variant = "51"
    /\ \E raw \in RawAnswers :
         rt' = IF Lower(Strip(raw)) = Yes
               THEN [rt EXCEPT !.phase = "list", !.attempts = 0, !.calls = 0]
               ELSE [rt EXCEPT !.phase = "skip"]
    /\ UNCHANGED <<capVars, prVars, mainVars, runVars, fnVars>>

\* 52.py / 53.py: one turn of `while attempts <= RT_RETRY` where the call
\* returned
ListSucceeds(v) ==
    /\ rt.phase = "list"
    /\ rt.variant = v
    /\ RetryAllowed(rt.attempts)
    /\ rt' = [rt EXCEPT !.phase = "listed", !.calls = @ + 1]
    /\ UNCHANGED <<capVars, prVars, mainVars, runVars, fnVars>>

\* 52.py / 53.py: one turn of the loop where the call raised
ListFails(v) ==
    /\ rt.phase = "list"
    /\ rt.variant = v
    /\ RetryAllowed(rt.attempts)
    /\ rt.total < MaxListFails
    /\ rt' = [rt EXCEPT !.attempts = @ + 1, !.calls = @ + 1, !.total = @ + 1]
    /\ UNCHANGED <<capVars, prVars, mainVars, runVars, fnVars>>

\* 52.py / 53.py: the loop ends with revisions None and the user is asked
\* "Retry choosing option? (y/n) [y]"; on 'y' the menu is shown again and
\* the same choice starts a new listing.
RetryChoosing(v) ==
    /\ rt.phase = "list"
    /\ rt.variant = v
    /\ ~RetryAllowed(rt.attempts)
    /\ \E raw \in RawAnswers :
         rt' = IF OrDefault(Lower(Strip(raw)), Yes) # Yes
               THEN [rt EXCEPT !.phase = "skip"]
               ELSE [rt EXCEPT !.phase = "list", !.attempts = 0, !.calls = 0]
    /\ UNCHANGED <<capVars, prVars, mainVars, runVars, fnVars>>

ListSucceeds52 == ListSucceeds("52")
ListFails52 == ListFails("52")
RetryChoosing52 == RetryChoosing("52")
ListSucceeds53 == ListSucceeds("53")
ListFails53 == ListFails("53")
RetryChoosing53 == RetryChoosing("53")

NextList ==
    \/ ListSucceeds51
    \/ ListFails51
    \/ RetryListing51
    \/ ListSucceeds52
    \/ ListFails52
    \/ RetryChoosing52
    \/ ListSucceeds53
    \/ ListFails53
    \/ RetryChoosing53

SpecList == InitList /\ [][NextList]_vars

\* The state belongs to the call-by-call listing.
Listing == "calls" \in DOMAIN rt

\* The listing was given up and the user is about to be asked.
GaveUp ==
    IF rt.variant = "51" THEN rt.phase = "ask"
    ELSE rt.phase = "list" /\ ~RetryAllowed(rt.attempts)

\* C11 (as claimed): between two user prompts the revision list call is
\* attempted at most RT_RETRY = 2 times, in 51.py, 52.py and 53.py.
C11_AtMostTwoListCalls == Listing => rt.calls <= RT_RETRY

\* C11 (amended): between two user prompts 51.py attempts the revision list
\* call at most RT_RETRY times, while 52.py and 53.py attempt it at most
\* RT_RETRY + 1 times; each gives up the listing exactly at its bound.
C11_ListCallsBounded ==
    Listing =>
        LET bound == IF rt.variant = "51" THEN RT_RETRY ELSE RT_RETRY + 1
        IN  /\ rt.calls <= bound
            /\ GaveUp => rt.calls = bound
            /\ (rt.phase = "list" /\ rt.calls = bound) => GaveUp

C11_Witness ==
    /\ Listing
    /\ rt.variant = "53"
    /\ rt.calls = RT_RETRY + 1
    /\ GaveUp

(***************************************************************************)
(* Helpers shared by the per-pair loops of the other scripts.              *)
(***************************************************************************)
NoOps == [p \in Pairs |-> {}]
Did(p, op) == [ops EXCEPT ![p] = @ \cup {op}]
Row(i, status, name) == [index |-> i, status |-> status, tag |-> name]

\* The loop variable after the current pair: the next pair, or past the end.
AfterPair(p, loop, end) ==
    /\ pair' = p + 1
    /\ at' = IF p + 1 > NumPairs THEN end ELSE loop

\* int(s) of Python for an optional '-' and digits; ok is FALSE when int()
\* raises ValueError.
PyInt(s) ==
    IF IsDigit(s) THEN [ok |-> TRUE, val |-> ToInt(s)]
    ELSE IF Len(s) > 1 /\ s[1] = "-" /\ IsDigit(Tail(s))
    THEN [ok |-> TRUE, val |-> 0 - ToInt(Tail(s))]
    ELSE [ok |-> FALSE, val |-> 0]

\* seq[i] of Python (0-based, negative indices count from the end); ok is
\* FALSE when it raises IndexError.
PyIndex(seq, i) ==
    IF i >= 0 /\ i < Len(seq) THEN [ok |-> TRUE, val |-> seq[i + 1]]
    ELSE IF i < 0 /\ i >= 0 - Len(seq)
    THEN [ok |-> TRUE, val |-> seq[Len(seq) + i + 1]]
    ELSE [ok |-> FALSE, val |-> NoneName]

\* What may be typed where a number is asked.
NumberInputs == {<<>>, <<"0">>, <<"1">>, <<" ", "2">>, <<"3">>, <<"x">>,
                 <<"-", "1">>}
TypedName == <<"n">>
TagInputs == {<<>>, TypedName}

(***************************************************************************)
(* main of 14.py (lines 226-303)                                           *)
(***************************************************************************)
Init14 ==
    /\ script = "14"
    /\ at = "find_ws"
    /\ pair = 1
    /\ meta = <<>>
    /\ dev_tags = <<>>
    /\ tag = NoneName
    /\ tasks = <<>>
    /\ summary = <<>>
    /\ ops = NoOps
    /\ CapIdle
    /\ PrIdle
    /\ RtIdle
    /\ MainIdle
    /\ FnIdle

Idle14 == UNCHANGED <<capVars, prVars, rtVars, mainVars, fnVars, script, tasks>>

\* lines 230-236: find_workspace_for_model for DEV and PROD; it raises when
\* the model is in no workspace (or a request fails)
FindWorkspaces14 ==
    /\ script = "14"
    /\ at = "find_ws"
    /\ \E dev \in BOOLEAN, prod \in BOOLEAN :
         /\ meta' = Append(meta, [dev |-> dev, prod |-> prod])
         /\ IF dev /\ prod
            THEN /\ at' = "export"
                 /\ UNCHANGED <<pair, summary>>
            ELSE /\ summary' = Append(summary,
                                  Row(pair, "Workspace Not Found", NoneName))
                 /\ AfterPair(pair, "find_ws", "done")
    /\ \E revisions \in MainRevisionLists : dev_tags' = revisions
    /\ tag' = NoneName
    /\ UNCHANGED ops
    /\ Idle14

\* lines 239-245: model history export
Export14 ==
    /\ script = "14"
    /\ at = "export"
    /\ \E ok \in BOOLEAN :
         IF ok
         THEN /\ at' = "select"
              /\ UNCHANGED <<pair, summary>>
         ELSE /\ summary' = Append(summary,
                               Row(pair, "Export Failed", NoneName))
              /\ AfterPair(pair, "find_ws", "done")
    /\ UNCHANGED <<meta, dev_tags, tag, ops>>
    /\ Idle14

\* get_latest_revision_tag, lines 185-189: the name, or NoneName when it
\* raises (no tags)
get_latest_revision_tag14(tags) ==
    IF tags = <<>> THEN NoneName ELSE tags[Len(tags)]

\* The outcomes of one turn of the selection loop, lines 248-272, when no
\* request fails: the selected name, or NoneName for an exception.
SelectTurn14(choice, tags) ==
    IF choice = <<"3">>
    THEN {LET n == PyInt(Strip(raw))
          IN  IF ~n.ok THEN NoneName ELSE PyIndex(tags, n.val - 1).val
            : raw \in NumberInputs}
    ELSE {get_latest_revision_tag14(tags)}

\* lines 267-272: the exception handler of the selection loop
SelectFailed14 ==
    \E retry \in RawAnswers :
        IF Lower(Strip(retry)) # Yes
        THEN /\ summary' = Append(summary,
                              Row(pair, "RT Selection Failed", NoneName))
             /\ AfterPair(pair, "find_ws", "done")
        ELSE UNCHANGED <<pair, at, summary>>

\* One turn of the selection loop with choice 1, 3 or anything else
SelectListed14 ==
    /\ script = "14"
    /\ at = "select"
    /\ \E raw \in MenuInputs, ok \in BOOLEAN :
         LET choice == OrDefault(Strip(raw), <<"1">>)
         IN  /\ choice # <<"2">>
             /\ ops' = Did(pair, "list")
             /\ \E name \in (IF ok THEN SelectTurn14(choice, dev_tags)
                                   ELSE {NoneName}) :
                  IF name # NoneName
                  THEN /\ tag' = name
                       /\ at' = "usage"
                       /\ UNCHANGED <<pair, summary>>
                  ELSE /\ tag' = NoneName
                       /\ SelectFailed14
    /\ UNCHANGED <<meta, dev_tags>>
    /\ Idle14

\* One turn of the selection loop with choice 2: create_revision_tag,
\* lines 173-183
SelectCreate14 ==
    /\ script = "14"
    /\ at = "select"
    /\ \E typed \in TagInputs, created \in BOOLEAN :
         LET tag_name_input == OrDefault(Strip(typed), AutoName)
         IN  /\ ops' = Did(pair, "create")
             /\ IF created
                THEN /\ dev_tags' = Append(dev_tags, tag_name_input)
                     /\ tag' = tag_name_input
                     /\ at' = "usage"
                     /\ UNCHANGED <<pair, summary>>
                ELSE /\ tag' = NoneName
                     /\ SelectFailed14
                     /\ UNCHANGED dev_tags
    /\ UNCHANGED meta
    /\ Idle14

\* line 279: get_workspace_usage is called outside any try; when it raises
\* the exception leaves main
Usage14 ==
    /\ script = "14"
    /\ at = "usage"
    /\ ops' = Did(pair, "usage")
    /\ \E ok \in BOOLEAN : at' = IF ok THEN "confirm" ELSE "crashed"
    /\ UNCHANGED <<pair, meta, dev_tags, tag, summary>>
    /\ Idle14

\* lines 285-288
Confirm14 ==
    /\ script = "14"
    /\ at = "confirm"
    /\ ops' = Did(pair, "confirm")
    /\ \E raw \in RawAnswers :
         IF OrDefault(Lower(Strip(raw)), Yes) # Yes
         THEN /\ summary' = Append(summary, Row(pair, "Skipped", tag))
              /\ AfterPair(pair, "find_ws", "done")
         ELSE /\ at' = "promote"
              /\ UNCHANGED <<pair, summary>>
    /\ UNCHANGED <<meta, dev_tags, tag>>
    /\ Idle14

\* line 296: resp.status_code in (200,201,202)
Accepted14(resp) == resp.kind = "status" /\ resp.status \in {200, 201, 202}

\* lines 291-303
Promote14 ==
    /\ script = "14"
    /\ at = "promote"
    /\ ops' = Did(pair, "promote")
    /\ \E resp \in MainPrimaryResponses :
         summary' = Append(summary,
             Row(pair, IF Accepted14(resp) THEN "Sync Initiated"
                                           ELSE "Sync Failed", tag))
    /\ AfterPair(pair, "find_ws", "done")
    /\ UNCHANGED <<meta, dev_tags, tag>>
    /\ Idle14

Next14 ==
    \/ FindWorkspaces14
    \/ Export14
    \/ SelectListed14
    \/ SelectCreate14
    \/ Usage14
    \/ Confirm14
    \/ Promote14

Spec14 == Init14 /\ [][Next14]_vars

(***************************************************************************)
(* main of Alm7.py (lines 372-401), ask_revision_choice_for_pair (312-342) *)
(* and parallel_sync_executor (361-366)                                    *)
(***************************************************************************)
IdName == <<"#">>                  \* the id of a created revision
MetaAlm7 == [dev : BOOLEAN, prod : BOOLEAN]   \* workspace_id is not None

InitAlm7 ==
    /\ script = "Alm7"
    /\ at = "discover"
    /\ pair = 1
    /\ meta = <<>>
    /\ dev_tags = <<>>
    /\ tag = NoneName
    /\ tasks = <<>>
    /\ summary = <<>>
    /\ ops = NoOps
    /\ CapIdle
    /\ PrIdle
    /\ RtIdle
    /\ MainIdle
    /\ FnIdle

IdleAlm7 == UNCHANGED <<capVars, prVars, rtVars, mainVars, fnVars, script>>

\* discover_model_metadata, lines 145-160: a model found in no workspace
\* gets workspace_id None
DiscoverAlm7 ==
    /\ script = "Alm7"
    /\ at = "discover"
    /\ meta' \in [Pairs -> MetaAlm7]
    /\ at' = "export"
    /\ UNCHANGED <<pair, dev_tags, tag, tasks, summary, ops>>
    /\ IdleAlm7

\* main lines 388-394: the model history download; a failure only leaves
\* rev_file None
ExportAlm7 ==
    /\ script = "Alm7"
    /\ at = "export"
    /\ at' = "ask"
    /\ \E revisions \in MainRevisionLists : dev_tags' = revisions
    /\ UNCHANGED <<pair, meta, tag, tasks, summary, ops>>
    /\ IdleAlm7

\* list_revision_tags, lines 252-264: the listing, or [] when the request
\* fails
list_revision_tagsAlm7(ok, revisions) == IF ok THEN revisions ELSE <<>>

\* lines 319-321 and 326-334: the tag selected from a listing
SelectedFromAlm7(choice, tags, sel) ==
    IF tags = <<>> THEN AutoName
    ELSE IF choice = <<"1">> THEN tags[1]
    ELSE LET n == PyInt(sel)
             t == PyIndex(tags, n.val - 1)
         IN  IF n.ok /\ t.ok THEN t.val ELSE tags[1]

\* Which branch of lines 319-334 produced the tag: the 'use latest' option
\* on a non-empty listing, a selection from it, or a name made up because
\* the listing came back empty.
ViaAlm7(choice, tags) ==
    IF tags = <<>> THEN "invented"
    ELSE IF choice = <<"1">> THEN "latest" ELSE "selected"

\* lines 335-341: the capacity estimate and the question asked above 95%.
\* usage is "none" without a PROD workspace (no request, 0/0), "failed"
\* (0/0), "low" or "high" (above 95% after the sync).
CapacityAlm7(p, usage, answer) ==
    [asked |-> usage = "high",
     fetched |-> usage # "none",
     proceed |-> IF usage = "high"
                 THEN OrDefault(Lower(Strip(answer)), No) = Yes ELSE TRUE]

UsagesAlm7(p) == IF meta[p].prod THEN {"failed", "low", "high"} ELSE {"none"}

\* The task returned by ask_revision_choice_for_pair, line 341, with what
\* was done for the pair.
TaskAlm7(p, name, via, c, did, remote) ==
    /\ tasks' = Append(tasks, [index |-> p, tag |-> name, via |-> via,
                               proceed |-> c.proceed,
                               in_dev |-> \E k \in 1..Len(remote) :
                                             remote[k] = name])
    /\ tag' = name
    /\ ops' = [ops EXCEPT ![p] = @ \cup did \cup {"capacity"}
                    \cup (IF c.fetched THEN {"usage"} ELSE {})
                    \cup (IF c.asked THEN {"confirm"} ELSE {})]
    /\ AfterPair(p, "export", "sync")

\* ask_revision_choice_for_pair with choice 1, 3 or anything else
AskListedAlm7 ==
    /\ script = "Alm7"
    /\ at = "ask"
    /\ \E raw \in MenuInputs, ok \in BOOLEAN, rawsel \in NumberInputs,
          usage \in UsagesAlm7(pair), answer \in MainAnswers :
         LET choice == OrDefault(Strip(raw), <<"1">>)
             tags == list_revision_tagsAlm7(ok, dev_tags)
             sel == OrDefault(Strip(rawsel), <<"1">>)
             c == CapacityAlm7(pair, usage, answer)
         IN  /\ choice # <<"2">>
             /\ IF choice \in {<<"1">>, <<"3">>}
                THEN TaskAlm7(pair, SelectedFromAlm7(choice, tags, sel),
                              ViaAlm7(choice, tags), c, {"list"}, dev_tags)
                ELSE TaskAlm7(pair, NoneName, "none", c, {}, dev_tags)
    /\ UNCHANGED <<meta, dev_tags, summary>>
    /\ IdleAlm7

\* The name taken from the create response, line 325
CreatedNameAlm7(body, tag_name) ==
    CASE body = "name" -> tag_name
      [] body = "id" -> IdName
      [] OTHER -> tag_name

\* ask_revision_choice_for_pair with choice 2; create_revision_tag (lines
\* 236-250) raises without a workspace or on a refused request, and nothing
\* catches it
AskCreateAlm7 ==
    /\ script = "Alm7"
    /\ at = "ask"
    /\ \E typed \in TagInputs, created \in BOOLEAN,
          body \in {"name", "id", "empty"},
          usage \in UsagesAlm7(pair), answer \in MainAnswers :
         LET tag_name == OrDefault(Strip(typed), AutoName)
             c == CapacityAlm7(pair, usage, answer)
         IN  IF ~meta[pair].dev
             THEN /\ at' = "crashed"
                  /\ UNCHANGED <<pair, dev_tags, tag, tasks, ops>>
             ELSE IF ~created
             THEN /\ at' = "crashed"
                  /\ ops' = Did(pair, "create")
                  /\ UNCHANGED <<pair, dev_tags, tag, tasks>>
             ELSE /\ dev_tags' = Append(dev_tags, tag_name)
                  /\ TaskAlm7(pair, CreatedNameAlm7(body, tag_name),
                              "created", c, {"create"},
                              Append(dev_tags, tag_name))
    /\ UNCHANGED <<meta, summary>>
    /\ IdleAlm7

\* parallel_sync_executor, line 362: to_run
to_runAlm7 == {k \in 1..Len(tasks) : tasks[k].proceed}
PromotedAlm7 == {summary[k].index : k \in 1..Len(summary)}

\* promote_revision_to_prod, lines 347-359, run by a worker for one task of
\* to_run; the workers finish in any order
PromoteAlm7 ==
    /\ script = "Alm7"
    /\ at = "sync"
    /\ \E k \in to_runAlm7 :
         /\ tasks[k].index \notin PromotedAlm7
         /\ ops' = Did(tasks[k].index, "promote")
         /\ \E resp \in MainPrimaryResponses :
              summary' = Append(summary,
                  Row(tasks[k].index,
                      IF resp.kind = "status" THEN "status" ELSE "Exception",
                      tasks[k].tag))
    /\ UNCHANGED <<at, pair, meta, dev_tags, tag, tasks>>
    /\ IdleAlm7

\* lines 363 and 366: nothing to run, or every future has its result
SyncDoneAlm7 ==
    /\ script = "Alm7"
    /\ at = "sync"
    /\ \A k \in to_runAlm7 : tasks[k].index \in PromotedAlm7
    /\ at' = "done"
    /\ UNCHANGED <<pair, meta, dev_tags, tag, tasks, summary, ops>>
    /\ IdleAlm7

NextAlm7 ==
    \/ DiscoverAlm7
    \/ ExportAlm7
    \/ AskListedAlm7
    \/ AskCreateAlm7
    \/ PromoteAlm7
    \/ SyncDoneAlm7

SpecAlm7 == InitAlm7 /\ [][NextAlm7]_vars

(***************************************************************************)
(* Auto_ALM.py and Auto_ALM2.py: main, ask_revision_choice_for_pair,       *)
(* sync_revision_to_prod and parallel_sync_executor                        *)
(***************************************************************************)
MAX_WORKERS == 4

CreateBodyKinds == {"name", "id", "empty"}

\* What ask_revision_choice_for_pair selected: the tag name, the branch that
\* set it, what was requested on the way, and the DEV revisions afterwards.
Selection(name, via, did, remote) ==
    [name |-> name, via |-> via, did |-> did, remote |-> remote]

\* list_revision_tags (Auto_ALM.py 250-264, Auto_ALM2.py 288-298): a failed
\* request is answered with the empty list
list_revision_tagsALM(ok, revisions) == IF ok THEN revisions ELSE <<>>
ListedALM(ok) == IF ok THEN {"list"} ELSE {"list", "list_failed"}

\* The create branch (Auto_ALM.py 364-377, Auto_ALM2.py 403-414): the name
\* typed or auto-generated is kept when create_revision_tag raises
CreateBranchALM(did, revisions) ==
    {LET tag_name == OrDefault(Strip(typed), AutoName)
     IN  IF created
         THEN Selection(CreatedNameAlm7(body, tag_name), "created",
                        did \cup {"create"}, Append(revisions, tag_name))
         ELSE Selection(tag_name, "invented", did \cup {"create"}, revisions)
       : typed \in TagInputs, created \in BOOLEAN, body \in CreateBodyKinds}

\* The branch taken for an empty listing at choice 3 (Auto_ALM.py 380-385,
\* Auto_ALM2.py 418-424): a name is typed and kept, nothing is created
TypedBranchALM(did, revisions) ==
    {Selection(OrDefault(Strip(typed), AutoName), "invented",
               did \cup {"as_empty"}, revisions) : typed \in TagInputs}

\* tags[int(sel) - 1], or NoneName when the try block raises
PickedALM(tags, rawsel) ==
    LET n == PyInt(Strip(rawsel))
    IN  IF n.ok THEN PyIndex(tags, n.val - 1).val ELSE NoneName

\* Auto_ALM.py lines 348-402
SelectionsALM(revisions) ==
    UNION {LET choice == Strip(raw)
               tags == list_revision_tagsALM(ok, revisions)
               did == ListedALM(ok)
           IN  IF choice = <<"1">>
               THEN IF tags # <<>>
                    THEN {Selection(tags[1], "latest", did, revisions)}
                    ELSE {Selection(NoneName, "none", did \cup {"as_empty"},
                                    revisions)}
               ELSE IF choice = <<"2">>
               THEN CreateBranchALM({}, revisions)
               ELSE IF choice = <<"3">>
               THEN IF tags = <<>>
                    THEN TypedBranchALM(did, revisions)
                    ELSE {LET name == PickedALM(tags, rawsel)
                          IN  Selection(name, IF name = NoneName THEN "none"
                                              ELSE "selected", did, revisions)
                            : rawsel \in NumberInputs}
               ELSE IF tags # <<>>
                    THEN {Selection(tags[1], "latest", did, revisions)}
                    ELSE {Selection(NoneName, "none", did, revisions)}
             : raw \in MenuInputs, ok \in BOOLEAN}

\* Auto_ALM2.py lines 388-437
SelectionsALM2(revisions) ==
    UNION {LET choice == OrDefault(Strip(raw), <<"1">>)
               tags == list_revision_tagsALM(ok, revisions)
               did == ListedALM(ok)
           IN  IF choice = <<"1">>
               THEN IF tags # <<>>
                    THEN {Selection(tags[1], "latest", did, revisions)}
                    ELSE CreateBranchALM(did \cup {"as_empty"}, revisions)
               ELSE IF choice = <<"2">>
               THEN CreateBranchALM({}, revisions)
               ELSE IF choice = <<"3">>
               THEN IF tags = <<>>
                    THEN TypedBranchALM(did, revisions)
                    ELSE {LET name == PickedALM(tags, rawsel)
                          IN  IF name = NoneName
                              THEN Selection(tags[1], "fallback", did,
                                             revisions)
                              ELSE Selection(name, "selected", did, revisions)
                            : rawsel \in NumberInputs}
               ELSE {Selection(NoneName, "none", {}, revisions)}
             : raw \in MenuInputs, ok \in BOOLEAN}

InitALM ==
    /\ script \in {"Auto_ALM", "Auto_ALM2"}
    /\ at = "download"
    /\ pair = 1
    /\ meta = <<>>
    /\ dev_tags = <<>>
    /\ tag = NoneName
    /\ tasks = <<>>
    /\ summary = <<>>
    /\ ops = NoOps
    /\ CapIdle
    /\ PrIdle
    /\ RtIdle
    /\ MainIdle
    /\ FnIdle

IsALM == script \in {"Auto_ALM", "Auto_ALM2"}
IdleALM == UNCHANGED <<capVars, prVars, rtVars, mainVars, fnVars, script, meta>>

\* main: the model history download of the pair (Auto_ALM.py 544-550,
\* Auto_ALM2.py 573-580); a failure only leaves the file unset
DownloadALM ==
    /\ IsALM
    /\ at = "download"
    /\ at' = "ask"
    /\ \E revisions \in MainRevisionLists : dev_tags' = revisions
    /\ UNCHANGED <<pair, tag, tasks, summary, ops>>
    /\ IdleALM

UsagesALM == {"failed", "low", "high"}

\* The capacity question (Auto_ALM.py 413-420, Auto_ALM2.py 452-458): asked
\* only above 95%, and only 'y' proceeds
ProceedALM(usage, raw) ==
    IF usage # "high" THEN TRUE
    ELSE IF script = "Auto_ALM" THEN Lower(Strip(raw)) = Yes
    ELSE OrDefault(Lower(Strip(raw)), No) = Yes

\* ask_revision_choice_for_pair and the append to sync_plan (Auto_ALM.py
\* 554-555, Auto_ALM2.py 584-585)
AskALM ==
    /\ IsALM
    /\ at = "ask"
    /\ \E sel \in (IF script = "Auto_ALM" THEN SelectionsALM(dev_tags)
                                          ELSE SelectionsALM2(dev_tags)),
          usage \in UsagesALM, raw \in MainAnswers :
         /\ tasks' = Append(tasks,
               [index |-> pair, tag |-> sel.name, via |-> sel.via,
                proceed |-> ProceedALM(usage, raw),
                in_dev |-> \E k \in 1..Len(sel.remote) :
                              sel.remote[k] = sel.name,
                state |-> "pending", status |-> "none"])
         /\ tag' = sel.name
         /\ dev_tags' = sel.remote
         /\ ops' = [ops EXCEPT ![pair] = @ \cup sel.did \cup {"capacity"}
                         \cup (IF usage = "high" THEN {"confirm"} ELSE {})]
    /\ AfterPair(pair, "download",
                 IF script = "Auto_ALM" THEN "sync" ELSE "confirm_all")
    /\ UNCHANGED summary
    /\ IdleALM

\* Auto_ALM2.py lines 601-604
ConfirmAllALM2 ==
    /\ script = "Auto_ALM2"
    /\ at = "confirm_all"
    /\ \E raw \in RawAnswers :
         at' = IF OrDefault(Lower(Strip(raw)), Yes) # Yes THEN "exit"
               ELSE "sync"
    /\ UNCHANGED <<pair, dev_tags, tag, tasks, summary, ops>>
    /\ IdleALM

\* parallel_sync_executor: to_run, in plan order
\* every task of the plan, confirmed or not (not the code's filter)
to_runEvery == 1..Len(tasks)
to_run == {k \in 1..Len(tasks) : tasks[k].proceed}
Running == {k \in to_run : tasks[k].state = "running"}
Collected == {k \in to_run : \E j \in 1..Len(summary) :
                                 summary[j].index = tasks[k].index}

\* The tasks whose result the caller may append next, taken in the order the
\* workers finish (not the code: as_completed instead of map)
CollectableAsCompleted(plan) ==
    {k \in to_run \ Collected : plan[k].state = "finished"}
\* for r in executor.map(...): the results come in the order of to_run, each
\* once its worker has finished
Collectable(plan) ==
    {k \in to_run \ Collected :
        /\ plan[k].state = "finished"
        /\ \A j \in to_run : j < k => j \in Collected}

\* Auto_ALM.py 472-474, Auto_ALM2.py 500-502: nothing confirmed
NothingToRun ==
    /\ IsALM
    /\ at = "sync"
    /\ to_run = {}
    /\ at' = "done"
    /\ UNCHANGED <<pair, dev_tags, tag, tasks, summary, ops>>
    /\ IdleALM

\* a worker thread takes a task and sends the promote request of
\* sync_revision_to_prod
StartSync ==
    /\ IsALM
    /\ at = "sync"
    /\ Cardinality(Running) < MAX_WORKERS
    /\ \E k \in to_run :
         /\ tasks[k].state = "pending"
         /\ tasks' = [tasks EXCEPT ![k].state = "running"]
         /\ ops' = Did(tasks[k].index, "promote")
    /\ UNCHANGED <<at, pair, dev_tags, tag, summary>>
    /\ IdleALM

\* the request of a worker is answered and sync_revision_to_prod returns
\* (Auto_ALM.py 453-462, Auto_ALM2.py 487-496)
FinishSync ==
    /\ IsALM
    /\ at = "sync"
    /\ \E k \in Running, resp \in MainPrimaryResponses :
         tasks' = [tasks EXCEPT
                     ![k].state = "finished",
                     ![k].status = IF resp.kind # "status" THEN "error"
                                   ELSE IF resp.status \in {200, 201, 202}
                                   THEN "started" ELSE "failed"]
    /\ UNCHANGED <<at, pair, dev_tags, tag, summary, ops>>
    /\ IdleALM

\* results.append(r) (Auto_ALM.py 484-485, Auto_ALM2.py 508-509)
CollectResult ==
    /\ IsALM
    /\ at = "sync"
    /\ \E k \in Collectable(tasks) :
         summary' = Append(summary,
                           Row(tasks[k].index, tasks[k].status, tasks[k].tag))
    /\ UNCHANGED <<at, pair, dev_tags, tag, tasks, ops>>
    /\ IdleALM

\* the executor returns the results and main logs the summary
ExecutorReturns ==
    /\ IsALM
    /\ at = "sync"
    /\ to_run # {}
    /\ Collected = to_run
    /\ at' = "done"
    /\ UNCHANGED <<pair, dev_tags, tag, tasks, summary, ops>>
    /\ IdleALM

\* The sync plans main can hand to parallel_sync_executor: one entry per
\* pair, confirmed or not.
SyncPlans ==
    [Pairs -> [index : Pairs, tag : {<<"a">>, NoneName}, via : {"selected"},
               proceed : BOOLEAN, in_dev : {TRUE}, state : {"pending"},
               status : {"none"}]]

\* parallel_sync_executor is entered with the plan main has built
InitExec ==
    /\ script \in {"Auto_ALM", "Auto_ALM2"}
    /\ at = "sync"
    /\ pair = NumPairs + 1
    /\ meta = <<>>
    /\ dev_tags = <<>>
    /\ tag = NoneName
    /\ \E plan \in SyncPlans :
         /\ \A k \in Pairs : plan[k].index = k
         /\ tasks = plan
    /\ summary = <<>>
    /\ ops = NoOps
    /\ CapIdle
    /\ PrIdle
    /\ RtIdle
    /\ MainIdle
    /\ FnIdle

\* main up to the call of parallel_sync_executor
NextALM ==
    \/ DownloadALM
    \/ AskALM
    \/ ConfirmAllALM2

SpecALM == InitALM /\ [][NextALM]_vars

\* parallel_sync_executor and its worker threads
NextExec ==
    \/ NothingToRun
    \/ StartSync
    \/ FinishSync
    \/ CollectResult
    \/ ExecutorReturns

SpecExec == InitExec /\ [][NextExec]_vars

\* main of Auto_ALM.py from the first pair to the summary (lines 539-565):
\* the plan is built pair by pair, then handed to parallel_sync_executor
InitRun == InitALM /\ script = "Auto_ALM"

NextRun ==
    \/ DownloadALM
    \/ AskALM
    \/ NothingToRun
    \/ StartSync
    \/ FinishSync
    \/ CollectResult
    \/ ExecutorReturns

SpecRun == InitRun /\ [][NextRun]_vars

(***************************************************************************)
(* main of 18.py (lines 90-146), 19.py (lines 207-295) and 21.py (lines    *)
(* 257-318): one pair after the other, the revision is selected in a loop  *)
(* of turns, then the pair is confirmed and promoted.  In this             *)
(* specification `tasks` is the ordered list of what was done for the      *)
(* current pair ("usage", "select", "confirm", "promote") and `meta` holds *)
(* the locals of the last selection turn.                                  *)
(***************************************************************************)
Family == {"18", "19", "21"}

\* tag of 18.py before its first assignment
Unbound == <<"?">>

NoTurn == [pct |-> "low", listed |-> "none", create |-> "none"]

\* The outcome of one selection turn: the name assigned (NoneName when
\* nothing usable was assigned), whether the turn raised, what the list and
\* the create request did, and the revisions of the DEV model afterwards.
Turn(name, raised, listed, create, remote) ==
    [name |-> name, raised |-> raised, listed |-> listed, create |-> create,
     remote |-> remote]

\* How a create request ends: "ok", "status" (a failure status) or "raise"
CreateKind(v, resp) ==
    IF resp.kind # "status" THEN "raise"
    ELSE IF v = "18" THEN (IF RaisesForStatus(resp.status) THEN "status"
                                                            ELSE "ok")
    ELSE IF v = "19" THEN (IF resp.status \in {201, 202} THEN "ok"
                                                         ELSE "status")
    ELSE IF resp.status \in {200, 201, 202} THEN "ok" ELSE "status"

\* create_revision_tag of 21.py, lines 169-188, when the request is answered
\* with a failure status: the last listed name, or NoneName when it raises
create_fallback21(tags) == IF tags # <<>> THEN tags[Len(tags)] ELSE NoneName

\* The turns of 18.py, lines 105-128
Turns18(revisions, current) ==
    UNION {LET choice == OrDefault(Strip(raw), <<"1">>)
           IN  IF ~ok THEN {Turn(NoneName, TRUE, "failed", "none", revisions)}
               ELSE IF choice = <<"1">>
               THEN {Turn(IF revisions # <<>> THEN revisions[Len(revisions)]
                          ELSE NoneName, FALSE, "ok", "none", revisions)}
               ELSE IF choice = <<"2">>
               THEN {LET new_tag == Strip(typed)
                         kind == CreateKind("18", resp)
                     IN  IF kind = "ok"
                         THEN Turn(new_tag, FALSE, "ok", kind,
                                   Append(revisions, new_tag))
                         ELSE Turn(NoneName, TRUE, "ok", kind, revisions)
                       : typed \in TagInputs, resp \in CreateResponses}
               ELSE IF choice = <<"3">>
               THEN {LET n == PyInt(Strip(rawsel))
                         picked == PyIndex(revisions, n.val - 1)
                     IN  IF n.ok /\ picked.ok
                         THEN Turn(picked.val, FALSE, "ok", "none", revisions)
                         ELSE Turn(NoneName, TRUE, "ok", "none", revisions)
                       : rawsel \in NumberInputs}
               ELSE {Turn(current, FALSE, "ok", "none", revisions)}
             : raw \in MenuInputs, ok \in BOOLEAN}

\* The turns of 19.py, lines 236-264, with get_latest_revision_tag (138-142),
\* create_revision_tag (126-136) and select_revision_tag (144-153)
Turns19(revisions) ==
    UNION {LET choice == OrDefault(Strip(raw), <<"1">>)
           IN  IF choice = <<"2">>
               THEN {LET tag_input == OrDefault(Strip(typed), AutoName)
                         kind == CreateKind("19", resp)
                     IN  IF kind = "ok"
                         THEN Turn(tag_input, FALSE, "none", kind,
                                   Append(revisions, tag_input))
                         ELSE Turn(NoneName, TRUE, "none", kind, revisions)
                       : typed \in TagInputs, resp \in CreateResponses}
               ELSE IF ~ok
               THEN {Turn(NoneName, TRUE, "failed", "none", revisions)}
               ELSE IF revisions = <<>>
               THEN {Turn(NoneName, TRUE, "ok", "none", revisions)}
               ELSE IF choice = <<"3">>
               THEN {LET n == PyInt(Strip(rawsel))
                     IN  IF n.ok /\ 0 <= n.val - 1 /\ n.val - 1 < Len(revisions)
                         THEN Turn(revisions[n.val], FALSE, "ok", "none",
                                   revisions)
                         ELSE Turn(NoneName, TRUE, "ok", "none", revisions)
                       : rawsel \in NumberInputs}
               ELSE {Turn(revisions[Len(revisions)], FALSE, "ok", "none",
                          revisions)}
             : raw \in MenuInputs, ok \in BOOLEAN}

\* The turns of 21.py, lines 281-297, with list_revision_tags (156-167: the
\* empty list when the request fails), create_revision_tag (169-188),
\* get_latest_revision_tag (190-196) and select_revision_tag (197-211)
Turns21(revisions) ==
    UNION {LET choice == OrDefault(Strip(raw), <<"1">>)
               tags == IF ok THEN revisions ELSE <<>>
               listed == IF ok THEN "ok" ELSE "failed"
           IN  IF choice = <<"2">>
               THEN {LET tag_input == OrDefault(Strip(typed), AutoName)
                         kind == CreateKind("21", resp)
                     IN  IF kind = "ok"
                         THEN Turn(tag_input, FALSE, "none", kind,
                                   Append(revisions, tag_input))
                         ELSE IF kind = "raise"
                         THEN Turn(NoneName, TRUE, "none", kind, revisions)
                         ELSE Turn(create_fallback21(tags),
                                   create_fallback21(tags) = NoneName,
                                   listed, kind, revisions)
                       : typed \in TagInputs, resp \in CreateResponses}
               ELSE IF choice = <<"1">>
               THEN {IF tags = <<>>
                     THEN Turn(NoneName, TRUE, listed, "none", revisions)
                     ELSE Turn(tags[Len(tags)], FALSE, listed, "none",
                               revisions)}
               ELSE IF choice = <<"3">>
               THEN IF tags = <<>>
                    THEN {Turn(NoneName, TRUE, listed, "none", revisions)}
                    ELSE {Turn(tags[k], FALSE, listed, "none", revisions)
                            : k \in 1..Len(tags)}
               ELSE {Turn(NoneName, FALSE, "none", "none", revisions)}
             : raw \in MenuInputs, ok \in BOOLEAN}

Turns(v, revisions, current) ==
    IF v = "18" THEN Turns18(revisions, current)
    ELSE IF v = "19" THEN Turns19(revisions)
    ELSE Turns21(revisions)

InitTag ==
    /\ script \in Family
    /\ at = "find_ws"
    /\ pair = 1
    /\ meta = NoTurn
    /\ dev_tags = <<>>
    /\ tag = IF script = "18" THEN Unbound ELSE NoneName
    /\ tasks = <<>>
    /\ summary = <<>>
    /\ ops = NoOps
    /\ CapIdle
    /\ PrIdle
    /\ RtIdle
    /\ MainIdle
    /\ FnIdle

IdleTag == UNCHANGED <<capVars, prVars, rtVars, mainVars, fnVars, script>>

\* 18.py 94-101, 19.py 214-221, 21.py 265-271
FindWorkspacesTag ==
    /\ script \in Family
    /\ at = "find_ws"
    /\ tasks' = <<>>
    /\ \E found \in BOOLEAN :
         IF found
         THEN /\ at' = IF script = "18" THEN "select" ELSE "usage"
              /\ UNCHANGED <<pair, summary>>
         ELSE /\ summary' = Append(summary,
                               Row(pair, "Workspace Not Found", NoneName))
              /\ AfterPair(pair, "find_ws", "done")
    /\ \E revisions \in MainRevisionLists : dev_tags' = revisions
    /\ UNCHANGED <<meta, tag, ops>>
    /\ IdleTag

\* 19.py 224-231 (a failed fetch counts as 0 of 0 bytes), 21.py 274-276
\* (get_workspace_usage, 133-151, falls back to 0 of 1 GB); then the
\* selection loop is entered with tag_name = None
UsageTag ==
    /\ script \in {"19", "21"}
    /\ at = "usage"
    /\ \E usage \in UsagesALM :
         /\ meta' = [NoTurn EXCEPT !.pct = IF usage = "high" THEN "high"
                                                             ELSE "low"]
         /\ ops' = [ops EXCEPT ![pair] = @ \cup {"usage"}
                       \cup (IF usage = "failed" THEN {"usage_failed"}
                                                 ELSE {})]
    /\ tasks' = Append(tasks, "usage")
    /\ at' = "select"
    /\ tag' = NoneName
    /\ UNCHANGED <<pair, dev_tags, summary>>
    /\ IdleTag

NoSelectionStatus(v) ==
    IF v = "21" THEN "No RT Selected" ELSE "RT Selection Failed"

\* One turn of the selection loop and what follows it: the retry question
\* after an exception, the row of a pair left without a revision, or the
\* confirmation
SelectTag ==
    /\ script \in Family
    /\ at = "select"
    /\ tasks' = Append(tasks, "select")
    /\ \E t \in Turns(script, dev_tags, tag), retry \in RawAnswers :
         /\ meta' = [meta EXCEPT !.listed = t.listed, !.create = t.create]
         /\ dev_tags' = t.remote
         /\ ops' = [ops EXCEPT ![pair] = @
                       \cup (IF t.listed # "none" THEN {"list"} ELSE {})
                       \cup (IF t.create # "none" THEN {"create"} ELSE {})]
         /\ IF t.raised /\ Lower(Strip(retry)) = Yes
            THEN /\ Count(tasks, "select") + 1 < MaxSelTries
                 /\ UNCHANGED <<tag, pair, at, summary>>
            ELSE IF t.raised
            THEN /\ tag' = NoneName
                 /\ summary' = Append(summary,
                       Row(pair, NoSelectionStatus(script), NoneName))
                 /\ AfterPair(pair, "find_ws", "done")
            ELSE IF t.name = Unbound
            THEN /\ at' = "crashed"
                 /\ UNCHANGED <<tag, pair, summary>>
            ELSE IF t.name = NoneName
            THEN /\ tag' = t.name
                 /\ summary' = Append(summary,
                       Row(pair, NoSelectionStatus(script), NoneName))
                 /\ AfterPair(pair, "find_ws", "done")
            ELSE /\ tag' = t.name
                 /\ at' = "confirm"
                 /\ UNCHANGED <<pair, summary>>
    /\ IdleTag

\* 18.py 135-138, 19.py 270-290, 21.py 304-313: the answer that proceeds
WarnedTag(v, pct) == v # "18" /\ pct = "high"
\* a pair at or above the threshold is rejected without regard to the answer
\* (not the code)
ProceedTagAutoReject(v, pct, raw) ==
    ~WarnedTag(v, pct) /\ OrDefault(Lower(Strip(raw)), Yes) = Yes
ProceedTag(v, pct, raw) ==
    IF ~WarnedTag(v, pct)
    THEN OrDefault(Lower(Strip(raw)), Yes) = Yes
    ELSE Lower(Strip(raw)) = Yes

ConfirmTag ==
    /\ script \in Family
    /\ at = "confirm"
    /\ tasks' = Append(tasks, "confirm")
    /\ \E raw \in RawAnswers :
         /\ ops' = [ops EXCEPT ![pair] = @ \cup {"confirm"}
                       \cup (IF WarnedTag(script, meta.pct) THEN {"warned"}
                                                            ELSE {})
                       \cup (IF Lower(Strip(raw)) = Yes THEN {"yes"}
                                                        ELSE {})]
         /\ IF ProceedTag(script, meta.pct, raw)
            THEN /\ at' = "promote"
                 /\ UNCHANGED <<pair, summary>>
            ELSE /\ summary' = Append(summary, Row(pair, "Skipped", tag))
                 /\ AfterPair(pair, "find_ws", "done")
    /\ UNCHANGED <<meta, dev_tags, tag>>
    /\ IdleTag

\* promote_revision_tag of 18.py (66-72, called in a try at 140-146),
\* sync_revision of 19.py (171-182, no try) and of 21.py (216-233)
PromoteTag ==
    /\ script \in Family
    /\ at = "promote"
    /\ tasks' = Append(tasks, "promote")
    /\ ops' = Did(pair, "promote")
    /\ \E resp \in MainPrimaryResponses :
         IF script = "19" /\ resp.kind # "status"
         THEN /\ at' = "crashed"
              /\ UNCHANGED <<pair, summary>>
         ELSE /\ summary' = Append(summary,
                   Row(pair,
                       IF resp.kind # "status" THEN "Sync Failed"
                       ELSE IF script = "18"
                       THEN (IF RaisesForStatus(resp.status)
                             THEN "Sync Failed" ELSE "Sync Initiated")
                       ELSE IF resp.status \in {200, 201, 202}
                       THEN "Sync Initiated" ELSE "Sync Failed", tag))
              /\ AfterPair(pair, "find_ws", "done")
    /\ UNCHANGED <<meta, dev_tags, tag>>
    /\ IdleTag

NextTag ==
    \/ FindWorkspacesTag
    \/ UsageTag
    \/ SelectTag
    \/ ConfirmTag
    \/ PromoteTag

SpecTag == InitTag /\ [][NextTag]_vars

(***************************************************************************)
(* find_workspace_for_model (14.py lines 99-112, 51.py lines 151-174) as   *)
(* main calls it for the DEV and then the PROD model of a pair (14.py      *)
(* 230-236).  scan.layout tells which models each listed workspace holds;  *)
(* the counters count the requests of the whole run, `fetched` the         *)
(* workspaces whose models the current call has listed.                    *)
(***************************************************************************)
Workspaces == 1..NumWorkspaces
ScanModels == <<"dev", "prod">>
Layouts == [Workspaces -> SUBSET {"dev", "prod"}]

\* for m in models: if m.get("id") == model_id: return ws_id  (not the
\* code: the match is ignored and the scan goes on)
ModelListedNever(models, model_id) == FALSE
\* for m in models: if m.get("id") == model_id: return ws_id
ModelListed(models, model_id) == model_id \in models

Lookup(model, ws, fetched, error) ==
    [model |-> model, ws |-> ws, fetched |-> fetched, error |-> error]

InitScan ==
    /\ \E layout \in Layouts :
         scan = [phase |-> "call", layout |-> layout, k |-> 1, i |-> 0,
                 fetched |-> {}, ws_fetches |-> 0,
                 model_fetches |-> [w \in Workspaces |-> 0],
                 lookups |-> <<>>]
    /\ PollIdle
    /\ ThreadsIdle
    /\ CapIdle
    /\ PrIdle
    /\ RtIdle
    /\ MainIdle
    /\ RunIdle

IdleScan ==
    UNCHANGED <<capVars, prVars, rtVars, mainVars, runVars, poll, worker, lock>>

\* The call ends: main goes on with the next model, or is done with the
\* pair (after PROD, or when the call raised)
ScanReturn(ws, fetched, error) ==
    [scan EXCEPT
       !.lookups = Append(@, Lookup(ScanModels[scan.k], ws, fetched, error)),
       !.phase = IF error # "none" \/ scan.k = Len(ScanModels)
                 THEN "done" ELSE "call",
       !.k = IF error # "none" \/ scan.k = Len(ScanModels)
             THEN @ ELSE @ + 1,
       !.i = 0,
       !.fetched = {}]

\* lines 100-103: GET /workspaces, raise_for_status
FetchWorkspaces ==
    /\ scan.phase = "call"
    /\ \E ok \in BOOLEAN :
         LET counted == [scan EXCEPT !.ws_fetches = @ + 1]
         IN  scan' = IF ok
                     THEN [counted EXCEPT !.phase = "scan", !.i = 1]
                     ELSE [ScanReturn(0, {}, "request")
                             EXCEPT !.ws_fetches = scan.ws_fetches + 1]
    /\ IdleScan

\* lines 104-111: GET /workspaces/{ws_id}/models of the next workspace,
\* raise_for_status, and the search of the model in the answer
FetchModels ==
    /\ scan.phase = "scan"
    /\ scan.i <= NumWorkspaces
    /\ \E ok \in BOOLEAN :
         LET w == scan.i
             fetched == scan.fetched \cup {w}
             counts == [scan.model_fetches EXCEPT ![w] = @ + 1]
         IN  scan' =
               IF ~ok
               THEN [ScanReturn(0, fetched, "request")
                       EXCEPT !.model_fetches = counts]
               ELSE IF ModelListed(scan.layout[w], ScanModels[scan.k])
               THEN [ScanReturn(w, fetched, "none")
                       EXCEPT !.model_fetches = counts]
               ELSE [scan EXCEPT !.i = @ + 1, !.fetched = fetched,
                                 !.model_fetches = counts]
    /\ IdleScan

\* line 112: raise RuntimeError("Workspace not found for model ...")
ScanNotFound ==
    /\ scan.phase = "scan"
    /\ scan.i > NumWorkspaces
    /\ scan' = ScanReturn(0, scan.fetched, "not_found")
    /\ IdleScan

NextScan ==
    \/ FetchWorkspaces
    \/ FetchModels
    \/ ScanNotFound

SpecScan == InitScan /\ [][NextScan]_vars

(***************************************************************************)
(* sync_revision_to_prod and poll_sync (SyncRT.py lines 51-94, 2RTSync.py  *)
(* lines 81-103).  poll.remote is the state of the sync task on the        *)
(* remote side, poll.last the state the last poll observed; poll.polls     *)
(* counts the polls and stops counting at MaxPolls.                        *)
(***************************************************************************)
TaskStates == {"NOT_STARTED", "IN_PROGRESS", "COMPLETE", "FAILED",
               "CANCELLED"}

\* status in ("COMPLETE", "FAILED", "CANCELLED")  (not the code's test: a
\* task in progress counts as finished)
IsTerminalEager(status) ==
    status \in {"IN_PROGRESS", "COMPLETE", "FAILED", "CANCELLED"}
\* status in ("COMPLETE", "FAILED", "CANCELLED")
IsTerminal(status) == status \in {"COMPLETE", "FAILED", "CANCELLED"}

PollVariants == {"SyncRT", "2RTSync"}

InitPoll ==
    /\ \E v \in PollVariants :
         poll = [phase |-> "auth", variant |-> v, remote |-> "none",
                 last |-> "none", result |-> "none", report |-> "none",
                 polls |-> 0]
    /\ ScanIdle
    /\ ThreadsIdle
    /\ CapIdle
    /\ PrIdle
    /\ RtIdle
    /\ MainIdle
    /\ RunIdle

IdlePoll ==
    UNCHANGED <<capVars, prVars, rtVars, mainVars, runVars, scan, worker, lock>>

\* SyncRT.py lines 80-82: authenticate raises on a failure
AuthenticateSync ==
    /\ poll.phase = "auth"
    /\ \E ok \in BOOLEAN :
         poll' = [poll EXCEPT !.phase = IF ok THEN "trigger" ELSE "raised"]
    /\ IdlePoll

\* trigger_sync, SyncRT.py lines 84-86: the task exists on the remote side
\* once the request is accepted
TriggerSync ==
    /\ poll.phase = "trigger"
    /\ \E ok \in BOOLEAN :
         poll' = IF ok
                 THEN [poll EXCEPT !.phase = "polling",
                                   !.remote = "NOT_STARTED"]
                 ELSE [poll EXCEPT !.phase = "raised"]
    /\ IdlePoll

\* The remote task moves on by itself
RemoteAdvance ==
    /\ poll.remote \in TaskStates
    /\ ~IsTerminal(poll.remote)
    /\ \E next \in TaskStates \ {"NOT_STARTED", poll.remote} :
         poll' = [poll EXCEPT !.remote = next]
    /\ IdlePoll

\* One turn of the loop of poll_sync (SyncRT.py 59-73) that gets an answer,
\* and lines 89-92 of sync_revision_to_prod when poll_sync returns
PollAnswered ==
    /\ poll.phase = "polling"
    /\ LET status == poll.remote
           polled == [poll EXCEPT
                        !.last = status,
                        !.polls = IF @ < MaxPolls THEN @ + 1 ELSE @]
       IN  poll' = IF IsTerminal(status)
                   THEN [polled EXCEPT
                           !.phase = "returned",
                           !.result = status,
                           !.report = IF status = "COMPLETE"
                                      THEN "success" ELSE "failed"]
                   ELSE polled
    /\ IdlePoll

\* lines 62-63: the poll request is answered with another status than 200
\* or 201 (or not at all); the exception leaves poll_sync
PollFails ==
    /\ poll.phase = "polling"
    /\ poll' = [poll EXCEPT !.phase = "raised",
                            !.polls = IF @ < MaxPolls THEN @ + 1 ELSE @]
    /\ IdlePoll

NextPoll ==
    \/ AuthenticateSync
    \/ TriggerSync
    \/ RemoteAdvance
    \/ PollAnswered
    \/ PollFails

\* The loop of poll_sync has no exit but return and raise: while it is
\* polling, the next poll is made.
SpecPoll ==
    InitPoll /\ [][NextPoll]_vars /\ WF_vars(PollAnswered \/ PollFails)

(***************************************************************************)
(* main of 51.py (lines 355-517): discovery, the planning loop with        *)
(* prompt_rt_choice, the summary of planned actions and the global proceed *)
(* prompt, then the execution of the planned items.  meta[p] tells whether *)
(* the discovery of pair p failed, tasks is `planned`, summary `results`.  *)
(***************************************************************************)
\* What prompt_rt_choice (lines 238-312) returns, with the requests it sent
Choices51 ==
    {[action |-> "create", revision |-> TypedName, did |-> {}],
     [action |-> "create", revision |-> AutoName, did |-> {"list"}],
     [action |-> "latest", revision |-> <<"b">>, did |-> {"list"}],
     [action |-> "select", revision |-> <<"a">>, did |-> {"list"}],
     [action |-> "skip", revision |-> NoneName, did |-> {}],
     [action |-> "skip", revision |-> NoneName, did |-> {"list"}]}

Init51 ==
    /\ script = "51"
    /\ at = "plan"
    /\ pair = 1
    /\ meta \in [Pairs -> BOOLEAN]
    /\ dev_tags = <<>>
    /\ tag = NoneName
    /\ tasks = <<>>
    /\ summary = <<>>
    /\ ops = NoOps
    /\ CapIdle
    /\ PrIdle
    /\ RtIdle
    /\ MainIdle
    /\ FnIdle

Idle51 ==
    UNCHANGED <<capVars, prVars, rtVars, mainVars, fnVars, script, meta,
                dev_tags>>

\* lines 403-423: one pass of the planning loop; a pair whose discovery
\* failed is passed over
Plan51 ==
    /\ script = "51"
    /\ at = "plan"
    /\ IF meta[pair]
       THEN UNCHANGED <<tasks, ops>>
       ELSE \E c \in Choices51 :
              /\ tasks' = Append(tasks, [index |-> pair, action |-> c.action,
                                         revision |-> c.revision])
              /\ ops' = [ops EXCEPT ![pair] = @ \cup c.did]
    /\ pair' = IF pair = NumPairs THEN 1 ELSE pair + 1
    /\ at' = IF pair = NumPairs THEN "proceed" ELSE "plan"
    /\ UNCHANGED <<tag, summary>>
    /\ Idle51

\* lines 425-437: the summary of planned actions is printed and the global
\* proceed prompt is answered; sys.exit(0) unless the answer is 'y'
Proceed51 ==
    /\ script = "51"
    /\ at = "proceed"
    /\ \E raw \in MainAnswers :
         at' = IF OrDefault(Lower(Strip(raw)), No) # Yes THEN "exit"
               ELSE IF tasks = <<>> THEN "done" ELSE "execute"
    /\ UNCHANGED <<pair, tag, tasks, summary, ops>>
    /\ Idle51

Advance51 ==
    /\ pair' = pair + 1
    /\ at' = IF pair = Len(tasks) THEN "done" ELSE "execute"

\* lines 441-445: a planned skip
ExecSkip51 ==
    /\ script = "51"
    /\ at = "execute"
    /\ tasks[pair].action = "skip"
    /\ summary' = Append(summary,
                     Row(tasks[pair].index, "Skipped by user", NoneName))
    /\ Advance51
    /\ UNCHANGED <<tag, tasks, ops>>
    /\ Idle51

\* lines 447-517: the revision is prepared (created now for 'create'), the
\* PROD usage fetched, the pair confirmed and promoted
ExecItem51 ==
    /\ script = "51"
    /\ at = "execute"
    /\ tasks[pair].action # "skip"
    /\ LET a == tasks[pair]
           prep == (IF a.action = "create" THEN {"create"}
                    ELSE IF a.action = "latest" THEN {"list"} ELSE {})
       IN  \E prepared \in BOOLEAN, usage_ok \in BOOLEAN, raw \in MainAnswers,
              resp \in MainPrimaryResponses :
             LET confirmed == OrDefault(Lower(Strip(raw)), No) = Yes
             IN  /\ tag' = IF prepared THEN a.revision ELSE tag
                 /\ ops' = [ops EXCEPT ![a.index] = @ \cup prep
                               \cup (IF prepared THEN {"usage"} ELSE {})
                               \cup (IF prepared /\ usage_ok
                                     THEN {"confirm"} ELSE {})
                               \cup (IF prepared /\ usage_ok /\ confirmed
                                     THEN {"promote"} ELSE {})]
                 /\ summary' = Append(summary,
                      Row(a.index,
                          IF ~prepared THEN "Preparation failed"
                          ELSE IF ~usage_ok THEN "Failed to fetch prod usage"
                          ELSE IF ~confirmed THEN "User canceled"
                          ELSE IF resp.kind = "status"
                                  /\ ~RaisesForStatus(resp.status)
                          THEN "Promote initiated" ELSE "Promote failed",
                          IF prepared THEN a.revision ELSE NoneName))
    /\ Advance51
    /\ UNCHANGED tasks
    /\ Idle51

Next51 ==
    \/ Plan51
    \/ Proceed51
    \/ ExecSkip51
    \/ ExecItem51

Spec51 == Init51 /\ [][Next51]_vars

(***************************************************************************)
(* The threads of 31.py: main, and one worker per configured pair running  *)
(* process_single_model; all of them share the module's lock               *)
(***************************************************************************)

MainThread == NumPairs + 1
Threads == {MainThread} \cup Pairs

\* A thread: the line it is about to execute and the number of 'with lock'
\* blocks it is inside
At(line, depth) == [pc |-> line, depth |-> depth]

\* lock = threading.Lock() (31.py line 18): acquire blocks while any thread,
\* the caller included, holds it
Acquirable(holder, w) == holder = 0

\* The calls of log_write and the line each one continues at
LogLines ==
    {"L119", "L120", "L121", "L126", "L130", "L148", "L154", "L157", "L170",
     "L172", "L174", "L191", "L203"}
AfterLog(line) ==
    CASE line = "L119" -> "L120"
      [] line = "L120" -> "L121"
      [] line = "L121" -> "L124"
      [] line = "L157" -> "L160"
      [] line = "L191" -> "L195"
      [] line = "L203" -> "exit"
      [] OTHER -> "returned"

\* The lines at which a thread enters a 'with lock' block: log_write (36),
\* process_single_model (160) and save_input_history (53), which is called
\* inside the block of line 160
LockLines == LogLines \cup {"L160", "L53"}
WaitsForLock(w) ==
    /\ worker[w].pc \in LockLines
    /\ worker[w].depth = (IF worker[w].pc = "L53" THEN 1 ELSE 0)

\* The steps of process_single_model that take no lock, with their outcomes:
\* list_revisions (124), the revisions table (134), the saved choice (136-143),
\* the prompt of select_revision (107-112) and promote_revision (168-174)
Outcomes(line) ==
    CASE line = "L124" -> {"L126", "L130", "L134"}
      [] line = "L134" -> {"L136"}
      [] line = "L136" -> {"L157", "L154", "L107"}
      [] line = "L107" -> {"L107", "L148", "L157"}
      [] line = "L168" -> {"L170", "L172", "L174"}
      [] OTHER -> {}

Returned(w) == worker[w].pc = "returned"

Init31 ==
    /\ worker = [w \in Threads |-> IF w = MainThread THEN At("L191", 0)
                                                      ELSE At("idle", 0)]
    /\ lock = 0
    /\ ScanIdle
    /\ PollIdle
    /\ CapIdle
    /\ PrIdle
    /\ RtIdle
    /\ MainIdle
    /\ RunIdle

Idle31 == UNCHANGED <<capVars, prVars, rtVars, mainVars, runVars, scan, poll>>

\* main, lines 194-195: every pair is submitted, max_workers = len(models)
SubmitAll ==
    /\ worker[MainThread].pc = "L195"
    /\ worker' = [w \in Threads |-> IF w = MainThread THEN At("L196", 0)
                                                       ELSE At("L119", 0)]
    /\ UNCHANGED lock
    /\ Idle31

\* 'with lock:' is entered (lines 36, 53, 160)
Acquire ==
    /\ \E w \in Threads :
         /\ WaitsForLock(w)
         /\ Acquirable(lock, w)
         /\ lock' = w
         /\ worker' = [worker EXCEPT ![w] =
               IF @.pc = "L160" THEN At("L53", 1)
               ELSE IF @.pc = "L53" THEN At("L54", 2)
               ELSE At(@.pc, 1)]
    /\ Idle31

\* the body of a 'with lock' block is done and the block is left: the line
\* of log_write is written (37-39), the history file is written (54-55), or
\* the block of line 160 ends
Release ==
    /\ \E w \in Threads :
         /\ lock = w
         /\ worker[w].depth > 0
         /\ ~WaitsForLock(w)
         /\ lock' = 0
         /\ worker' = [worker EXCEPT ![w] =
               IF @.pc = "L54" THEN At("L166", 1)
               ELSE IF @.pc = "L166" THEN At("L168", 0)
               ELSE At(AfterLog(@.pc), 0)]
    /\ Idle31

\* a worker thread goes on by a step that takes no lock
StepWorker ==
    /\ \E w \in Pairs :
         \E line \in Outcomes(worker[w].pc) :
            worker' = [worker EXCEPT ![w] = At(line, 0)]
    /\ UNCHANGED lock
    /\ Idle31

\* main, lines 196-201 and the end of the executor's with block: every
\* future has completed
AllCompleted ==
    /\ worker[MainThread].pc = "L196"
    /\ \A w \in Pairs : Returned(w)
    /\ worker' = [worker EXCEPT ![MainThread] = At("L203", 0)]
    /\ UNCHANGED lock
    /\ Idle31

Next31 ==
    \/ SubmitAll
    \/ Acquire
    \/ Release
    \/ StepWorker
    \/ AllCompleted

Spec31 == Init31 /\ [][Next31]_vars

(***************************************************************************)
(* Claims about pairs whose model is found in no workspace.                *)
(***************************************************************************)
NotFound(p) == p <= Len(meta) /\ ~(meta[p].dev /\ meta[p].prod)

\* C12 (as claimed): for a pair whose source or target model is found in no
\* workspace, no revision is listed or created, no capacity check is made,
\* no confirmation is asked and no promotion request is sent.
C12_NotFoundPairUntouched ==
    \A p \in Pairs : (script = "Alm7" /\ NotFound(p)) => ops[p] = {}

(***************************************************************************)
(* Claims about the per-pair loop of 14.py.                                *)
(***************************************************************************)
Ended == at \in {"done", "crashed"}
Processed(p) == \E k \in 1..Len(summary) : summary[k].index = p

\* C13 (as claimed): in the sequential per-pair loop a failure while
\* processing one pair (the usage fetch or the promote request raising)
\* becomes that pair's outcome and every later pair is still processed: the
\* run never ends on an exception and ends with every pair processed.
C13_FailureStaysInItsPair ==
    script = "14" =>
        /\ at # "crashed"
        /\ Ended => \A p \in Pairs : Processed(p)

(***************************************************************************)
(* Claims about parallel_sync_executor and the summary built from it.      *)
(***************************************************************************)
RowsOf(p) == {k \in 1..Len(summary) : summary[k].index = p}

\* C14 (as claimed): every configured pair appears exactly once in the
\* final summary with its outcome, a pair the user declined included.
C14_EveryPairInSummary ==
    (IsALM /\ at = "done") => \A p \in Pairs : Cardinality(RowsOf(p)) = 1

\* C15: parallel_sync_executor returns the results of the confirmed tasks in
\* the order those tasks have in the sync plan, one result per confirmed
\* task, whatever the order in which the worker threads finish.
C15_ResultsInPlanOrder ==
    IsALM =>
        /\ \A i \in 1..Len(summary), j \in 1..Len(summary) :
             i < j => summary[i].index < summary[j].index
        /\ \A i \in 1..Len(summary) :
             /\ tasks[summary[i].index].proceed
             /\ summary[i].status = tasks[summary[i].index].status
        /\ at = "done" => \A k \in to_run : Cardinality(RowsOf(k)) = 1

\* The second confirmed task has finished while the first is still running:
\* its result waits.
C15_Witness ==
    /\ IsALM
    /\ at = "sync"
    /\ {1, 2} \subseteq to_run
    /\ tasks[1].state = "running"
    /\ tasks[2].state = "finished"
    /\ summary = <<>>
    /\ Collectable(tasks) = {}

(***************************************************************************)
(* Claims about the revision name handed to the promotion.                 *)
(***************************************************************************)
\* C16 (as claimed): the revision name a confirmed task carries into the
\* promotion is the name of a revision of the DEV model, either one that was
\* listed or one whose creation succeeded; no made-up name is carried
\* forward when listing or creation fails.
C16_PromotedNameExists ==
    (IsALM /\ at = "sync") => \A k \in to_run : tasks[k].in_dev

\* C17 (as claimed): in 21.py, when the create request is answered with a
\* failure status, create_revision_tag raises to its caller: the selection
\* turn ends without a revision, and no pre-existing revision is taken as
\* the created one.
C17_FailedCreateSelectsNothing ==
    (script = "21" /\ meta.create = "status") => tag = NoneName

\* C18 (as claimed): a failed revision list call is never handled as an
\* empty catalog: no pair has both a failed listing and the handling of a
\* model without revisions ("No tags found", switch to create).
C18_ListFailureIsNotEmptyCatalog ==
    IsALM => \A p \in Pairs : ~({"list_failed", "as_empty"} \subseteq ops[p])

\* C19 (as claimed): 'use latest' selects the last element of the revision
\* list returned by the catalog.
C19_LatestIsLastListed ==
    (/\ IsALM
     /\ tasks # <<>>
     /\ tasks[Len(tasks)].index = pair - 1
     /\ tasks[Len(tasks)].via = "latest")
        => tasks[Len(tasks)].tag = dev_tags[Len(dev_tags)]

(***************************************************************************)
(* Claims about the order of usage fetch, selection and confirmation.      *)
(***************************************************************************)
\* C20 (as claimed): the confirmation prompt of a pair is preceded by a
\* target-usage fetch made after the last revision selection of that pair.
C20_UsageFetchedAfterSelection ==
    script \in Family =>
        \A c \in 1..Len(tasks) :
            tasks[c] = "confirm" =>
                \E u \in 1..(c - 1) :
                    /\ tasks[u] = "usage"
                    /\ \E k \in 1..(u - 1) : tasks[k] = "select"
                    /\ \A k \in (u + 1)..(c - 1) : tasks[k] # "select"

(***************************************************************************)
(* Claims about a failed usage fetch.                                      *)
(***************************************************************************)
\* C21 (as claimed): a failed target usage fetch is non-fatal: no pair ends
\* with a failure outcome because of it, the pair goes on to its
\* confirmation with unknown capacity.
C21_UsageFailureNonFatal ==
    \A k \in 1..Len(results) :
        results[k].status # "Failed to fetch prod usage"

\* C22 (as claimed): in 21.py a pair whose usage fetch took the fallback is
\* confirmed through the warning branch, never as below the safe threshold.
C22_FallbackUsageWarns ==
    script = "21" =>
        \A p \in Pairs :
            {"usage_failed", "confirm"} \subseteq ops[p] => "warned" \in ops[p]

(***************************************************************************)
(* Claims about find_workspace_for_model.                                  *)
(***************************************************************************)
\* C23 (as claimed): during one run the workspace list and each
\* workspace's model list are fetched at most once, however many models are
\* resolved.
C23_ListingsFetchedOnce ==
    scan.phase # "off" =>
        /\ scan.ws_fetches <= 1
        /\ \A w \in Workspaces : scan.model_fetches[w] <= 1

Holders(model) == {w \in Workspaces : model \in scan.layout[w]}

\* C24: find_workspace_for_model returns the first listed workspace that
\* holds the model and has requested the model lists of the workspaces up to
\* that one only; it fails with not-found exactly when it has listed every
\* workspace and none holds the model.
C24_FirstMatchShortCircuits ==
    scan.phase # "off" =>
        \A n \in 1..Len(scan.lookups) :
            LET l == scan.lookups[n]
            IN  /\ l.error = "none" =>
                     /\ l.ws \in Holders(l.model)
                     /\ \A w \in Holders(l.model) : l.ws <= w
                     /\ l.fetched = 1..l.ws
                /\ l.error = "not_found" =>
                     /\ Holders(l.model) = {}
                     /\ l.fetched = Workspaces
                /\ l.error = "request" => l.ws = 0

\* The model is in the second workspace only, more workspaces follow, and
\* the call returned after two model lists.
C24_Witness ==
    /\ scan.phase # "off"
    /\ \E n \in 1..Len(scan.lookups) :
         /\ scan.lookups[n].error = "none"
         /\ scan.lookups[n].ws = 2
         /\ scan.lookups[n].ws < NumWorkspaces
         /\ scan.lookups[n].fetched = {1, 2}
    /\ \E n \in 1..Len(scan.lookups) : scan.lookups[n].error = "not_found"

(***************************************************************************)
(* Claims about poll_sync.                                                 *)
(***************************************************************************)
PollSafe ==
    poll.phase # "off" =>
        /\ poll.phase = "returned" =>
             /\ IsTerminal(poll.result)
             /\ poll.result \in {"COMPLETE", "FAILED", "CANCELLED"}
             /\ poll.result = poll.last
             /\ poll.result = poll.remote
             /\ poll.report = "success" <=> poll.result = "COMPLETE"
        /\ (poll.last \in {"NOT_STARTED", "IN_PROGRESS"}) =>
             poll.phase \in {"polling", "raised"}
        /\ poll.phase # "returned" =>
             poll.result = "none" /\ poll.report = "none"

\* C25: poll_sync returns only COMPLETE, FAILED or CANCELLED, and that is
\* the state its last poll observed; while the observed state is not
\* terminal it keeps polling; if the remote task reaches a terminal state
\* and no poll request fails, poll_sync eventually returns that state; and
\* sync_revision_to_prod reports success only for COMPLETE.
C25_PollReturnsTerminalState ==
    /\ []PollSafe
    /\ (<>(poll.phase # "off" /\ IsTerminal(poll.remote))
            /\ [](poll.phase # "raised"))
         => <>(poll.phase = "returned" /\ poll.result = poll.remote)

\* poll_sync polled a task not yet finished, polled again and returned
\* FAILED, which is not reported as success.
C25_Witness ==
    /\ poll.phase = "returned"
    /\ poll.result = "FAILED"
    /\ poll.polls >= 3
    /\ poll.report = "failed"

(***************************************************************************)
(* Claims about the failures of promote_revision_classic.                  *)
(***************************************************************************)
\* C26 (as claimed): promote_revision_classic does not raise when the
\* primary request and the fallback action task are both answered with a
\* non-2xx status: it returns an outcome.
C26_NegativeResponseNotRaised ==
    (/\ pr.phase = "returned"
     /\ pr.primary.kind = "status"
     /\ ~(pr.primary.status >= 200 /\ pr.primary.status < 300)
     /\ ~list_model_actions_raises(pr.listing)
     /\ pr.result.candidate # 0
     /\ pr.task.kind = "status"
     /\ ~(pr.task.status >= 200 /\ pr.task.status < 300))
        => ~pr.result.raised

\* C27: when the primary promote is not accepted and the PROD model has no
\* actions at all, no action task is started and the pair's result is a
\* promote failure whose reason is the missing promotion path.
C27_NoActionsNoTask ==
    \A p \in Pairs :
        (/\ requests[p].invoked = 1
         /\ ~requests[p].seen.accepted
         /\ requests[p].seen.actions = "none")
            => /\ requests[p].start_task = 0
               /\ requests[p].promote = 1
               /\ requests[p].list_actions = 1
               /\ \E k \in 1..Len(results) :
                    /\ results[k].index = p
                    /\ results[k].status = "Promote failed"
                    /\ results[k].detail = "no actions"

\* The run is over; the first pair met a refused primary request and a PROD
\* model without actions.
C27_Witness ==
    /\ pc = "done"
    /\ requests[1].invoked = 1
    /\ ~requests[1].seen.accepted
    /\ requests[1].seen.actions = "none"
    /\ results[1].detail = "no actions"

(***************************************************************************)
(* Claims about the execute phase of main (53.py).                         *)
(***************************************************************************)
\* C28 (as claimed): in the execute phase a failure of the revision list
\* call of a 'latest' pair is retried: a pair whose DEV model has revisions
\* ends as 'Preparation failed' only after more than one list call.
C28_LatestListRetried ==
    \A k \in 1..Len(results) :
        \A j \in 1..Len(planned) :
            (/\ planned[j].index = results[k].index
             /\ planned[j].action = "latest"
             /\ results[k].status = "Preparation failed"
             /\ dev_revisions[results[k].index] # <<>>)
                => requests[results[k].index].lists > 1

\* C29: when authentication fails the run is over before any pair is
\* processed: no metadata request, no revision request, no confirmation and
\* no promotion request is ever made.
C29_FailedAuthEndsRun ==
    (pc # "off" /\ pc # "auth" /\ token = "none") =>
        /\ pc = "exit_auth"
        /\ enriched = <<>>
        /\ planned = <<>>
        /\ results = <<>>
        /\ \A p \in Pairs :
             /\ NoPromotionRequest(p)
             /\ requests[p].create = 0
             /\ requests[p].lists = 0
             /\ confirms[p] = "unasked"

\* authenticate raised and main has left
C29_Witness ==
    /\ pc = "exit_auth"
    /\ token = "none"

(***************************************************************************)
(* Claims about main of 51.py.                                             *)
(***************************************************************************)
\* C30 (as claimed): in 51.py a pair planned with 'Create a new Revision Tag
\* in DEV (immediately)' has its create request sent at the time of the
\* choice: when the summary of planned actions is shown and the global
\* proceed prompt is answered, the request has been sent.
C30_CreateAtChoice ==
    (script = "51" /\ at \in {"proceed", "exit", "execute", "done"}) =>
        \A k \in 1..Len(tasks) :
            tasks[k].action = "create" => "create" \in ops[tasks[k].index]

(***************************************************************************)
(* Claims about the whole run of Auto_ALM.py.                              *)
(***************************************************************************)
\* C31: in Auto_ALM.py no promotion request is sent before the choices of
\* all configured pairs are collected, and promotion requests are sent only
\* for pairs whose proceed flag is true.
C31_CollectThenSync ==
    script = "Auto_ALM" =>
        \A p \in Pairs :
            "promote" \in ops[p] =>
                /\ Len(tasks) = NumPairs
                /\ at \in {"sync", "done"}
                /\ tasks[p].proceed

\* The run is over: the first pair was declined and got no request, the
\* last pair was promoted.
C31_Witness ==
    /\ script = "Auto_ALM"
    /\ at = "done"
    /\ ~tasks[1].proceed
    /\ "promote" \notin ops[1]
    /\ "confirm" \in ops[1]
    /\ "promote" \in ops[NumPairs]

\* C36: every promotion request sent by Auto_ALM.py carries a non-empty
\* revision name: a pair for which no revision ended up selected (tag_name
\* None) is never promoted.
C36_PromotionNamesARevision ==
    script = "Auto_ALM" =>
        \A p \in 1..Len(tasks) :
            "promote" \in ops[tasks[p].index] => tasks[p].tag # NoneName

(***************************************************************************)
(* Claims about the capacity confirmation of 19.py                         *)
(***************************************************************************)

\* C32: 19.py never rejects a pair on its own because of capacity risk: at
\* or above the 95% threshold the user is still asked, and a pair whose
\* answer was 'y' goes on to the promotion request and gets no "Skipped" row.
C32_HighUsageStillAsked ==
    script = "19" =>
        \A p \in Pairs :
            ("warned" \in ops[p] /\ "yes" \in ops[p]) =>
                /\ "confirm" \in ops[p]
                /\ \/ pair = p /\ at = "promote"
                   \/ "promote" \in ops[p]
                /\ \A j \in 1..Len(summary) :
                      summary[j].index = p => summary[j].status # "Skipped"
C32_Witness ==
    /\ script = "19"
    /\ "warned" \in ops[1] /\ "yes" \in ops[1] /\ "promote" \in ops[1]
    /\ \E j \in 1..Len(summary) :
          summary[j].index = 1 /\ summary[j].status = "Sync Initiated"

(***************************************************************************)
(* Claims about the worker threads of 31.py                                *)
(***************************************************************************)

\* C33: in 31.py every worker thread running process_single_model returns:
\* as long as a worker has not returned, some thread can take a step, so no
\* worker stays inside the 'with lock' block of the input history and no
\* thread calling log_write is blocked forever.
C33_WorkersReturn ==
    worker # <<>> =>
        \/ \A w \in Pairs : Returned(w)
        \/ ENABLED Next31

\* C39: in 31.py the interactive selection of different pairs is mutually
\* exclusive: at most one worker is between the printing of its revisions
\* table and the reading of its selection.
Selecting == {w \in Pairs : worker[w].pc = "L107"}
C39_OneSelectionAtATime ==
    worker # <<>> => Cardinality(Selecting) <= 1

(***************************************************************************)
(* Claims about the revision 18.py promotes                                *)
(***************************************************************************)

\* C34: in 18.py the revision promoted for a pair is always one listed on,
\* or created for, that pair's own DEV model during that pair's processing:
\* a value left over from an earlier pair is never promoted, whatever the
\* option typed.
C34_PromotedTagIsOwn ==
    (script = "18" /\ at = "promote") =>
        \E k \in 1..Len(dev_tags) : dev_tags[k] = tag

(***************************************************************************)
(* Claims about the revision 53.py promotes for a pair planned 'latest'    *)
(***************************************************************************)

\* C35: for a pair planned with action 'latest', the revision name sent in
\* the promotion request equals the name recorded in the plan and shown in
\* the planned-actions summary, even if the revision list of the DEV model
\* changes between the planning and the execute phase.
C35_LatestPromotesPlannedName ==
    \A p \in 1..Len(planned) :
        (planned[p].action = "latest" /\ requests[p].invoked > 0) =>
            requests[p].revision = planned[p].revision

(***************************************************************************)
(* Claims about the global proceed prompt of 53.py                         *)
(***************************************************************************)

StateChanging(p) ==
    requests[p].create + requests[p].promote + requests[p].start_task

\* C37: in main of 53.py, if the answer to the global proceed prompt is not
\* 'y', no state-changing request is sent for any pair: no revision tag is
\* created and no primary or fallback promotion request is sent, whatever
\* actions were planned.
C37_DeclinedRunChangesNothing ==
    (pc # "off" /\ plan_cont # Yes) =>
        /\ pc \notin {"execute", "confirm", "done"}
        /\ \A p \in Pairs : StateChanging(p) = 0 /\ requests[p].invoked = 0
C37_Witness ==
    /\ pc = "exit_cancel"
    /\ plan_cont = <<"y", "e", "s">>
    /\ \E p \in Pairs : planned[p].action = "create"
    /\ \E p \in Pairs : planned[p].action = "latest"
    /\ \A p \in Pairs : StateChanging(p) = 0

(***************************************************************************)
(* Claims about the 'create' action in the execute phase of 53.py          *)
(***************************************************************************)

\* C38: in the execute phase a 'create' action whose create request is
\* answered with 201 or 202, so that the DEV model holds the new tag, always
\* yields a selected revision and goes on to the usage check, whatever the
\* body of the response is: the item never ends as a failed preparation.
C38_AcceptedCreateIsPrepared ==
    \A k \in 1..Len(results) :
        LET p == results[k].index
        IN  (planned[p].action = "create"
               /\ InList(planned[p].revision, dev_revisions[p]))
              => results[k].status # "Preparation failed"

=============================================================================
